---- MODULE Spec2Model ----
(***************************************************************************)
(* A model of logkicker's line metadata parser (src/logkicker.py) and of   *)
(* the compact-block correlation pass parse_cb_log                         *)
(* (src/compactblocks/logsparser.py).                                      *)
(*                                                                         *)
(* Log lines are TLA+ strings and are parsed character by character, the   *)
(* way the regular expressions of the source do.  Python's None is the     *)
(* empty tuple <<>> and a present optional value v is <<v>>.  Python       *)
(* objects that are shared by reference (BlockReceived, BlockSent) live in *)
(* heaps indexed by allocation order; a reference is an index, 0 is None.  *)
(***************************************************************************)
EXTENDS Integers, Sequences, FiniteSets, TLC

VARIABLES
    log,                          \* the lines read from the file so far
    status,                       \* "running" | "done" | "aborted"
    error,                        \* the exception that aborted the pass, "" if none
    stdout,                       \* what handling the last line printed, "" if nothing
    recv_heap,                    \* the BlockReceived objects, in allocation order
    sent_heap,                    \* the BlockSent objects, in allocation order
    blocks_received,              \* dict: block hash -> BlockReceived reference
    blocks_sent,                  \* defaultdict(list): block hash -> BlockSent references
    pending_block_send,           \* BlockSent reference, 0 is None
    pending_max_send,             \* BlockSent reference, 0 is None
    hash_pending_reconstruction,  \* None or <<hash>>
    returned,                     \* TRUE once parse_cb_log has returned the two maps
    parts,                        \* how a line given to LogEntry was written
    parsed,                       \* the outcome of LogEntry on that line
    main_received,                \* compactlogsparser.main: blocks_received
    main_sent,                    \* compactlogsparser.main: blocks_sent
    main_todo,                    \* the visits its loops have still to make
    main_totals,                  \* its running totals
    main_status,                  \* "idle" | "start" | "loop" | "raised" | "reported" |
                                  \* "computed" | "histogram" | "scatter" | "exported"
    main_error,                   \* the exception main raised, "" if none
    over_sent,                    \* stats.sent_already_over_stats: the rows of sent
    over_locals,                  \* its locals, as far as they are computed
    over_status,                  \* "idle" | "start" | "fit" | "raised" | "printed"
    over_error                    \* the exception it raised, "" if none

vars == <<log, status, error, stdout, recv_heap, sent_heap, blocks_received,
          blocks_sent, pending_block_send, pending_max_send,
          hash_pending_reconstruction, returned, parts, parsed,
          main_received, main_sent, main_todo, main_totals, main_status,
          main_error, over_sent, over_locals, over_status, over_error>>

\* The state of the statistics of src/compactlogsparser.py and of
\* src/compactblocks/stats.py.
stats == <<main_received, main_sent, main_todo, main_totals, main_status,
           main_error, over_sent, over_locals, over_status, over_error>>

engine == <<recv_heap, sent_heap, blocks_received, blocks_sent,
            pending_block_send, pending_max_send, hash_pending_reconstruction>>

None == <<>>
Some(v) == <<v>>

(***************************************************************************)
(* Characters and string helpers.                                          *)
(***************************************************************************)
\* A string holds the characters up to U+00FF.  \s and str.strip() take the
\* characters str.isspace() accepts: tab, newline, vertical tab, form feed,
\* carriage return, U+001C to U+001F, space, U+0085 and U+00A0.
Whitespace ==
    {" ", "\t", "\n", "\r", "\f", "", "", "", "", "", "", " "}
Digits == {"0", "1", "2", "3", "4", "5", "6", "7", "8", "9"}
HexDigits == Digits \cup {"a", "b", "c", "d", "e", "f"}
Letters ==
    {"a", "b", "c", "d", "e", "f", "g", "h", "i", "j", "k", "l", "m", "n", "o",
     "p", "q", "r", "s", "t", "u", "v", "w", "x", "y", "z",
     "A", "B", "C", "D", "E", "F", "G", "H", "I", "J", "K", "L", "M", "N", "O",
     "P", "Q", "R", "S", "T", "U", "V", "W", "X", "Y", "Z"}
\* [a-zA-Z0-9_]
AsciiWordChars == Letters \cup Digits \cup {"_"}
\* The characters above U+007F that str.isalnum() accepts.
Latin1Alnum ==
    {"ª", "²", "³", "µ", "¹", "º", "¼", "½", "¾", "À", "Á", "Â",
     "Ã", "Ä", "Å", "Æ", "Ç", "È", "É", "Ê", "Ë", "Ì", "Í", "Î",
     "Ï", "Ð", "Ñ", "Ò", "Ó", "Ô", "Õ", "Ö", "Ø", "Ù", "Ú", "Û",
     "Ü", "Ý", "Þ", "ß", "à", "á", "â", "ã", "ä", "å", "æ", "ç",
     "è", "é", "ê", "ë", "ì", "í", "î", "ï", "ð", "ñ", "ò", "ó",
     "ô", "õ", "ö", "ø", "ù", "ú", "û", "ü", "ý", "þ", "ÿ"}
\* \w of a str pattern: the alphanumerics of Unicode and the underscore.
\* \d takes the decimal digits of Unicode, which up to U+00FF are Digits.
WordChars == AsciiWordChars \cup Latin1Alnum

Ch(s, i) == SubSeq(s, i, i)
From(s, i) == SubSeq(s, i, Len(s))
AllIn(s, C) == \A i \in 1..Len(s) : Ch(s, i) \in C
StartsWith(s, i, lit) ==
    /\ i + Len(lit) - 1 <= Len(s)
    /\ SubSeq(s, i, i + Len(lit) - 1) = lit
EndsWith(s, lit) ==
    /\ Len(lit) <= Len(s)
    /\ SubSeq(s, Len(s) - Len(lit) + 1, Len(s)) = lit

\* The first position >= i of s holding a character outside C, Len(s)+1 if none.
SkipClass(s, i, C) ==
    LET outside == {j \in i..Len(s) : Ch(s, j) \notin C}
    IN  IF outside = {} THEN Len(s) + 1
        ELSE CHOOSE j \in outside : \A k \in outside : j <= k

\* The first position >= i of s holding the character c, Len(s)+1 if none.
FindChar(s, i, c) ==
    LET hits == {j \in i..Len(s) : Ch(s, j) = c}
    IN  IF hits = {} THEN Len(s) + 1
        ELSE CHOOSE j \in hits : \A k \in hits : j <= k

DigitValue(c) ==
    CASE c = "0" -> 0 [] c = "1" -> 1 [] c = "2" -> 2 [] c = "3" -> 3
      [] c = "4" -> 4 [] c = "5" -> 5 [] c = "6" -> 6 [] c = "7" -> 7
      [] c = "8" -> 8 [] c = "9" -> 9

\* int(s) for a string of decimal digits.
RECURSIVE int(_)
int(s) ==
    IF Len(s) = 0 THEN 0
    ELSE 10 * int(SubSeq(s, 1, Len(s) - 1)) + DigitValue(Ch(s, Len(s)))

\* str.strip(): the line without its leading and trailing whitespace, lo the
\* position of its first character that is not whitespace.
StripFrom(s, lo) ==
    IF lo > Len(s) THEN ""
    ELSE SubSeq(s, lo,
                CHOOSE j \in lo..Len(s) :
                    /\ Ch(s, j) \notin Whitespace
                    /\ \A k \in (j + 1)..Len(s) : Ch(s, k) \in Whitespace)

strip(s) == StripFrom(s, SkipClass(s, 1, Whitespace))

(***************************************************************************)
(* src/logkicker.py: the tables and the patterns.                          *)
(***************************************************************************)
THREADNAME_STRINGS ==
    {"init", "http", "shutoff", "capnp-loop", "main", "qt-clientmodl",
     "qt-init", "qt-rpcconsole", "qt-walletctrl", "test", "initload",
     "mapport", "net", "dnsseed", "addcon", "opencon", "msghand",
     "i2paccept", "torcontrol"}

NUMEROUS_THREADNAME_PREFIXES == {"scriptch.", "httpworker."}

LOGGINGCATEGORY_STRINGS ==
    {"all", "net", "tor", "mempool", "http", "bench", "zmq", "walletdb",
     "rpc", "estimatefee", "addrman", "selectcoins", "reindex", "cmpctblock",
     "rand", "prune", "proxy", "mempoolrej", "libevent", "coindb", "qt",
     "leveldb", "validation", "i2p", "ipc", "lock", "blockstorage",
     "txreconciliation", "scan", "txpackages"}

\* $ of a pattern compiled without re.MULTILINE matches at the end of s and
\* just before a newline that is the last character of s: Dollar(s) is the
\* position of the last character a pattern ending in $ has to take, when
\* the characters it takes are no newlines.
Dollar(s) == IF EndsWith(s, "\n") THEN Len(s) - 1 ELSE Len(s)

\* NUMEROUS_THREADNAME_PATTERNS: ^scriptch\.\d+$ or ^httpworker\.\d+$
NumerousThreadnameMatch(s) ==
    \E p \in NUMEROUS_THREADNAME_PREFIXES :
        /\ StartsWith(s, 1, p)
        /\ Dollar(s) > Len(p)
        /\ AllIn(SubSeq(s, Len(p) + 1, Dollar(s)), Digits)

\* LOGCATEGORY_PATTERN: ^(cat1|cat2|...)(?::(\w+))?$
\* No category name holds a colon, so group 1 is the text before the first
\* colon of s, at position c (past Dollar(s) when s holds none), and the
\* level is the text from there to Dollar(s).
\* A match that takes the whole annotation, level included, for the category.
LogcategoryAt_Whole(s, c) ==
    IF c > Dollar(s)
    THEN IF SubSeq(s, 1, Dollar(s)) \in LOGGINGCATEGORY_STRINGS
         THEN [ok |-> TRUE, category |-> SubSeq(s, 1, Dollar(s)),
               loglevel |-> None]
         ELSE [ok |-> FALSE]
    ELSE IF /\ SubSeq(s, 1, c - 1) \in LOGGINGCATEGORY_STRINGS
            /\ c < Dollar(s)
            /\ AllIn(SubSeq(s, c + 1, Dollar(s)), WordChars)
    THEN [ok |-> TRUE, category |-> SubSeq(s, 1, Dollar(s)),
          loglevel |-> Some(SubSeq(s, c + 1, Dollar(s)))]
    ELSE [ok |-> FALSE]

LogcategoryAt(s, c) ==
    IF c > Dollar(s)
    THEN IF SubSeq(s, 1, Dollar(s)) \in LOGGINGCATEGORY_STRINGS
         THEN [ok |-> TRUE, category |-> SubSeq(s, 1, Dollar(s)),
               loglevel |-> None]
         ELSE [ok |-> FALSE]
    ELSE IF /\ SubSeq(s, 1, c - 1) \in LOGGINGCATEGORY_STRINGS
            /\ c < Dollar(s)
            /\ AllIn(SubSeq(s, c + 1, Dollar(s)), WordChars)
    THEN [ok |-> TRUE, category |-> SubSeq(s, 1, c - 1),
          loglevel |-> Some(SubSeq(s, c + 1, Dollar(s)))]
    ELSE [ok |-> FALSE]

LogcategoryMatch(s) == LogcategoryAt(s, FindChar(s, 1, ":"))

\* SOURCELOCATION_PATTERN: ^([^:]*\.(?:cpp|h)):(\d+)$, c the first colon of s
SourcelocationAt(s, c) ==
    IF /\ c < Dollar(s)
       /\ EndsWith(SubSeq(s, 1, c - 1), ".cpp") \/ EndsWith(SubSeq(s, 1, c - 1), ".h")
       /\ AllIn(SubSeq(s, c + 1, Dollar(s)), Digits)
    THEN [ok |-> TRUE, file |-> SubSeq(s, 1, c - 1),
          line_num |-> int(SubSeq(s, c + 1, Dollar(s)))]
    ELSE [ok |-> FALSE]

SourcelocationMatch(s) == SourcelocationAt(s, FindChar(s, 1, ":"))

\* FUNCTIONNAME_PATTERN: ^(?:[a-zA-Z_][a-zA-Z0-9_]*|operator.+)$
FunctionnameMatch(s) ==
    \/ /\ Dollar(s) > 0
       /\ Ch(s, 1) \in Letters \cup {"_"}
       /\ AllIn(SubSeq(s, 1, Dollar(s)), AsciiWordChars)
    \/ /\ StartsWith(s, 1, "operator")
       /\ Dollar(s) > Len("operator")
       /\ \A i \in 1..Dollar(s) : Ch(s, i) # "\n"

\* METADATA_PATTERN, group 1: ^(\s*(?:\[[^\]]+\]\s*)*)
\* From position i (after whitespace), the end of the longest run of bracket
\* groups, each followed by whitespace: the position where the body starts.
\* GroupEnd is given the group's opening bracket i and the first "]" after it.
RECURSIVE MetadataEnd(_, _), GroupEnd(_, _, _)
MetadataEnd(s, i) ==
    IF i <= Len(s) /\ Ch(s, i) = "["
    THEN GroupEnd(s, i, FindChar(s, i + 1, "]"))
    ELSE i

\* A prefix that takes the empty group [] for a group as well.
GroupEnd_Empty(s, i, c) ==
    IF c <= Len(s) /\ c > i
    THEN MetadataEnd(s, SkipClass(s, c + 1, Whitespace))
    ELSE i

GroupEnd(s, i, c) ==
    IF c <= Len(s) /\ c > i + 1
    THEN MetadataEnd(s, SkipClass(s, c + 1, Whitespace))
    ELSE i

\* (.*?)$ on the rest of the line, nl its first newline: the body, or no
\* match when the newline is not the rest's last character.
BodyMatch(metadata, rest, nl) ==
    IF nl > Len(rest) THEN [ok |-> TRUE, metadata |-> metadata, body |-> rest]
    ELSE IF nl = Len(rest)
    THEN [ok |-> TRUE, metadata |-> metadata, body |-> SubSeq(rest, 1, nl - 1)]
    ELSE [ok |-> FALSE]

\* METADATA_PATTERN.match(remainder), b the position where the body starts
MetadataSplit(remainder, b) ==
    BodyMatch(SubSeq(remainder, 1, b - 1), From(remainder, b),
              FindChar(From(remainder, b), 1, "\n"))

MetadataMatch(remainder) ==
    MetadataSplit(remainder,
                  MetadataEnd(remainder, SkipClass(remainder, 1, Whitespace)))

\* BRACKET_PATTERN.findall(s) from position i: the contents of the groups.
\* BracketClose is given the next "[" at o and the first "]" after it.
RECURSIVE BracketFindall(_, _), BracketClose(_, _, _)
BracketFindall(s, i) ==
    IF FindChar(s, i, "[") > Len(s) THEN <<>>
    ELSE BracketClose(s, FindChar(s, i, "["),
                      FindChar(s, FindChar(s, i, "[") + 1, "]"))

BracketClose(s, o, c) ==
    IF c > Len(s) THEN <<>>
    ELSE IF c = o + 1 THEN BracketFindall(s, o + 1)
    ELSE <<SubSeq(s, o + 1, c - 1)>> \o BracketFindall(s, c + 1)


(***************************************************************************)
(* src/logkicker.py: LogEntry.process_line_metadata.                       *)
(***************************************************************************)
NoMetadata(time_str) ==
    [time_str |-> time_str, category |-> None, thread |-> None, file |-> None,
     line_num |-> None, function |-> None, loglevel |-> None,
     wallet_name |-> None]

\* The outcome of constructing LogEntry(logline):
\*   kind "entry": metadata and body are set; slots names, group by group,
\*                 the slot each bracket group was assigned to;
\*   kind "bare":  the malformed-line warning was printed and the constructor
\*                 returned with neither metadata nor body set;
\*   kind "raise": the constructor raised exc.
Raise(exc) == [kind |-> "raise", exc |-> exc]

\* A loop that tries the function shape first.
SlotOf_FunctionFirst(metadatum) ==
    IF FunctionnameMatch(metadatum) THEN "function"
    ELSE IF metadatum \in THREADNAME_STRINGS THEN "thread"
    ELSE IF NumerousThreadnameMatch(metadatum) THEN "thread"
    ELSE IF SourcelocationMatch(metadatum).ok THEN "file"
    ELSE "invalid"

\* The slot the loop over the groups left of the category assigns a group to.
SlotOf(metadatum) ==
    IF metadatum \in THREADNAME_STRINGS THEN "thread"
    ELSE IF NumerousThreadnameMatch(metadatum) THEN "thread"
    ELSE IF SourcelocationMatch(metadatum).ok THEN "file"
    ELSE IF FunctionnameMatch(metadatum) THEN "function"
    ELSE "invalid"

\* The value a slot holds after the loop: that of the last group assigned to
\* it, hits the positions of the groups assigned to it.
LastHit(matches, hits) ==
    IF hits = {} THEN None
    ELSE Some(matches[CHOOSE i \in hits : \A j \in hits : j <= i])

LastOf(matches, slot) ==
    LastHit(matches, {i \in 1..Len(matches) : SlotOf(matches[i]) = slot})

\* The Metadata built after the loop; file is the group assigned to the file
\* slot, with its match.
Built(time_str, body, found, ncat, lcm, file, sl) ==
    [kind |-> "entry",
     metadata |->
         [time_str |-> time_str,
          category |-> Some(lcm.category),
          thread |-> LastOf(SubSeq(found, 1, ncat - 1), "thread"),
          file |-> IF file = None THEN None ELSE Some(sl.file),
          line_num |-> IF file = None THEN None ELSE Some(sl.line_num),
          function |-> LastOf(SubSeq(found, 1, ncat - 1), "function"),
          loglevel |-> lcm.loglevel,
          wallet_name |-> IF ncat = Len(found) THEN None
                          ELSE Some(found[Len(found)])],
     body |-> body,
     slots |-> [i \in 1..Len(found) |->
                   IF i < ncat THEN SlotOf(found[i])
                   ELSE IF i = ncat THEN "category"
                   ELSE "wallet_name"]]

\* for metadatum in matches: ... for the groups found, the first ncat - 1 of
\* them left of the category.
Assign(time_str, body, found, ncat, lcm, file) ==
    IF \E i \in 1..(ncat - 1) : SlotOf(found[i]) = "invalid"
    THEN Raise("ValueError")
    ELSE Built(time_str, body, found, ncat, lcm, file,
               IF file = None THEN None ELSE SourcelocationMatch(file[1]))

\* The group at position ncat of found must match the category pattern.
Category(time_str, body, found, ncat) ==
    IF ~LogcategoryMatch(found[ncat]).ok THEN Raise("ValueError")
    ELSE Assign(time_str, body, found, ncat, LogcategoryMatch(found[ncat]),
                LastOf(SubSeq(found, 1, ncat - 1), "file"))

\* A parser that takes a lone group that is no category for the wallet name.
Disambiguate_Lenient(time_str, body, found) ==
    IF Len(found) = 0
    THEN [kind |-> "entry", metadata |-> NoMetadata(time_str), body |-> body,
          slots |-> <<>>]
    ELSE IF LogcategoryMatch(found[Len(found)]).ok
    THEN Category(time_str, body, found, Len(found))
    ELSE IF Len(found) = 1
    THEN [kind |-> "entry",
          metadata |-> [NoMetadata(time_str) EXCEPT !.wallet_name = Some(found[1])],
          body |-> body, slots |-> <<"wallet_name">>]
    ELSE Category(time_str, body, found, Len(found) - 1)

\* right_side = matches.pop(): the rightmost group is the category, or it is
\* the wallet name and the next pop gives the category; a pop from the empty
\* list raises IndexError.
Disambiguate(time_str, body, found) ==
    IF Len(found) = 0
    THEN [kind |-> "entry", metadata |-> NoMetadata(time_str), body |-> body,
          slots |-> <<>>]
    ELSE IF LogcategoryMatch(found[Len(found)]).ok
    THEN Category(time_str, body, found, Len(found))
    ELSE IF Len(found) = 1 THEN Raise("IndexError")
    ELSE Category(time_str, body, found, Len(found) - 1)

\* A tokenizer that looks for bracket groups in the body as well.
Tokenize_WholeLine(time_str, mm) ==
    IF ~mm.ok THEN Raise("ValueError")
    ELSE Disambiguate(time_str, mm.body,
                      BracketFindall(mm.metadata \o mm.body, 1))

\* METADATA_PATTERN.match(remainder), then BRACKET_PATTERN.findall(metadata)
Tokenize(time_str, mm) ==
    IF ~mm.ok THEN Raise("ValueError")
    ELSE Disambiguate(time_str, mm.body, BracketFindall(mm.metadata, 1))

\* time_str, remainder = logline.split(' ', 1), sp the first space
SplitTime(logline, sp) ==
    IF sp > Len(logline) THEN [kind |-> "bare"]
    ELSE Tokenize(SubSeq(logline, 1, sp - 1),
                  MetadataMatch(From(logline, sp + 1)))

process_line_metadata(logline) == SplitTime(logline, FindChar(logline, 1, " "))

LogEntry(line) == process_line_metadata(line)

(***************************************************************************)
(* src/logkicker.py: LogEntry.time.  dateutil parses the ISO-8601 stamps   *)
(* of the log, YYYY-MM-DDTHH:MM:SSZ and, with microseconds,                *)
(* YYYY-MM-DDTHH:MM:SS.ffffffZ, into a datetime in UTC, here the tuple     *)
(* <<year, month, day, hour, minute, second, microsecond>>; datetimes      *)
(* compare lexicographically.  It reads the fields by their position and   *)
(* hands them to datetime, which takes a year of 1 to 9999, a month of 1   *)
(* to 12, a day the month has, an hour up to 23 and a minute and a second  *)
(* up to 59; for other fields dateutil raises ParserError, a ValueError.   *)
(* A stamp of another shape is outside the model: IsTimestamp tells the    *)
(* two apart.                                                              *)
(***************************************************************************)
IsTimestamp(t) ==
    /\ Len(t) \in {20, 27}
    /\ \A i \in {1, 2, 3, 4, 6, 7, 9, 10, 12, 13, 15, 16, 18, 19} : Ch(t, i) \in Digits
    /\ Ch(t, 5) = "-" /\ Ch(t, 8) = "-" /\ Ch(t, 11) = "T"
    /\ Ch(t, 14) = ":" /\ Ch(t, 17) = ":" /\ Ch(t, Len(t)) = "Z"
    /\ Len(t) = 27 => Ch(t, 20) = "." /\ AllIn(SubSeq(t, 21, 26), Digits)

\* what.time(): kind "datetime" with the value, or kind "raise".
time(time_str) ==
    LET year == int(SubSeq(time_str, 1, 4))
        month == int(SubSeq(time_str, 6, 7))
        day == int(SubSeq(time_str, 9, 10))
        hour == int(SubSeq(time_str, 12, 13))
        minute == int(SubSeq(time_str, 15, 16))
        second == int(SubSeq(time_str, 18, 19))
        microsecond ==
            IF Len(time_str) = 27 THEN int(SubSeq(time_str, 21, 26)) ELSE 0
        leap == year % 4 = 0 /\ (year % 100 # 0 \/ year % 400 = 0)
        days == IF month = 2 THEN (IF leap THEN 29 ELSE 28)
                ELSE IF month \in {4, 6, 9, 11} THEN 30 ELSE 31
    IN  IF /\ year \in 1..9999 /\ month \in 1..12 /\ day \in 1..days
           /\ hour <= 23 /\ minute <= 59 /\ second <= 59
        THEN [kind |-> "datetime",
              value |-> <<year, month, day, hour, minute, second, microsecond>>]
        ELSE Raise("ParserError")

(***************************************************************************)
(* src/compactblocks/logsparser.py: LOG_PATTERNS and we_care.              *)
(* A pattern is a sequence of items: a literal, a named group of one or    *)
(* more characters of a class, or \s*.  Every named group is followed by a *)
(* literal that starts with a character outside the group's class, so the  *)
(* greedy match below is the only one the regular expression has.          *)
(***************************************************************************)
Lit(v) == [t |-> "lit", v |-> v]
Grp(name, cls) == [t |-> "grp", name |-> name, cls |-> cls]
OptWs == [t |-> "ws"]

CB_RECONSTRUCTION_REGEX ==
    <<Lit("Successfully reconstructed block "), Grp("blockhash", HexDigits),
      Lit(" with "), Grp("prefill_count", Digits), Lit(" txn prefilled, "),
      Grp("mempool_count", Digits), Lit(" txn from mempool (incl at least "),
      Grp("extrapool_count", Digits), Lit(" from extra pool) and "),
      Grp("requested_count", Digits), Lit(" txn ("),
      Grp("requested_bytes", Digits), Lit(" bytes) requested")>>

CB_RECEIVE_REGEX ==
    <<Lit("Initialized PartiallyDownloadedBlock for block "),
      Grp("blockhash", HexDigits), Lit(" using a cmpctblock of "),
      Grp("cmpctblock_bytes", Digits), Lit(" bytes")>>

CB_SEND_REGEX ==
    <<Lit("sending cmpctblock ("), Grp("cmpctblock_bytes", Digits),
      Lit(" bytes) peer="), Grp("peer_id", Digits)>>

CB_TO_ANNOUNCE_REGEX ==
    <<Lit("PeerManager::NewPoWValidBlock sending header-and-ids "),
      Grp("blockhash", HexDigits), Lit(" to peer="), Grp("peer_id", Digits)>>

CB_REQUESTED_REGEX ==
    <<Lit("received getdata for: cmpctblock "), Grp("blockhash", HexDigits),
      Lit(" peer="), Grp("peer_id", Digits)>>

NET_MAX_SEND_REGEX ==
    <<OptWs, Lit("- Max send per-rtt: "), Grp("max_send_bytes", Digits),
      Lit(" bytes")>>

LOG_PATTERNS ==
    <<[reason |-> "CB_RECONSTRUCTION", category |-> "cmpctblock",
       regex |-> CB_RECONSTRUCTION_REGEX],
      [reason |-> "CB_RECEIVE", category |-> "cmpctblock",
       regex |-> CB_RECEIVE_REGEX],
      [reason |-> "CB_SEND", category |-> "net", regex |-> CB_SEND_REGEX],
      [reason |-> "CB_TO_ANNOUNCE", category |-> "net",
       regex |-> CB_TO_ANNOUNCE_REGEX],
      [reason |-> "CB_REQUESTED", category |-> "net",
       regex |-> CB_REQUESTED_REGEX],
      [reason |-> "NET_MAX_SEND", category |-> "net",
       regex |-> NET_MAX_SEND_REGEX]>>

\* regex.match(body): items k.. of the pattern against body from position i,
\* data holding the groups captured so far.  The match is anchored at the
\* start of the body only.
RECURSIVE RegexMatchFrom(_, _, _, _, _)
RegexMatchFrom(regex, k, body, i, data) ==
    IF k > Len(regex) THEN [ok |-> TRUE, data |-> data]
    ELSE LET item == regex[k] IN
         CASE item.t = "lit" ->
                  IF StartsWith(body, i, item.v)
                  THEN RegexMatchFrom(regex, k + 1, body, i + Len(item.v), data)
                  ELSE [ok |-> FALSE]
           [] item.t = "grp" ->
                  LET j == SkipClass(body, i, item.cls) IN
                  IF j > i
                  THEN RegexMatchFrom(regex, k + 1, body, j,
                                      data @@ (item.name :> SubSeq(body, i, j - 1)))
                  ELSE [ok |-> FALSE]
           [] item.t = "ws" ->
                  RegexMatchFrom(regex, k + 1, body,
                                 SkipClass(body, i, Whitespace), data)

RegexMatch(regex, body) == RegexMatchFrom(regex, 1, body, 1, <<>>)

\* The patterns of LOG_PATTERNS that are of the entry's category and match
\* its body.
Matching_AnyCategory(entry) ==
    {k \in 1..Len(LOG_PATTERNS) :
        RegexMatch(LOG_PATTERNS[k].regex, entry.body).ok}

Matching(entry) ==
    {k \in 1..Len(LOG_PATTERNS) :
        /\ entry.metadata.category = Some(LOG_PATTERNS[k].category)
        /\ RegexMatch(LOG_PATTERNS[k].regex, entry.body).ok}

\* return pattern.reason, entry -- with entry.data = match.groupdict()
Cared(pattern, body) ==
    [why |-> pattern.reason, data |-> RegexMatch(pattern.regex, body).data]

\* The first of the matching patterns decides; none: WE_DONT.
FirstOf(entry, hits) ==
    IF hits = {} THEN [why |-> "WE_DONT", data |-> <<>>]
    ELSE Cared(LOG_PATTERNS[CHOOSE k \in hits : \A j \in hits : k <= j],
               entry.body)

\* we_care(entry) for an entry whose metadata and body are set.
we_care(entry) == FirstOf(entry, Matching(entry))

(***************************************************************************)
(* src/logkicker.py: process_log_generator, one line of the file.          *)
(* A line that is blank once stripped is skipped; any other line becomes   *)
(* LogEntry(line.strip()) and, there being no filter_func, is yielded.     *)
(***************************************************************************)
Stripped(l) == IF l = "" THEN [kind |-> "blank"] ELSE LogEntry(l)

process_log_generator(line) == Stripped(strip(line))

\* What the loop of parse_cb_log gets for a line: the entry's kind and, for a
\* yielded entry with metadata, we_care's verdict and the entry's time string.
What(entry, verdict) ==
    [kind |-> "entry", why |-> verdict.why, data |-> verdict.data,
     time_str |-> entry.metadata.time_str]

Verdict(entry) ==
    IF entry.kind = "entry" THEN What(entry, we_care(entry)) ELSE entry

Yielded(line) == Verdict(process_log_generator(line))

(***************************************************************************)
(* src/compactblocks/logsparser.py: BlockReceived, BlockSent.              *)
(***************************************************************************)
BlockReceived(time_received, received_size) ==
    [time_received |-> Some(time_received), time_reconstructed |-> None,
     received_size |-> received_size, bytes_missing |-> 0,
     received_tx_missing |-> 0, reconstruction_time_ns |-> 0]

\* A send record that does not keep the receive record it was made for.
BlockSent_Unbound(block_received, peer_id) ==
    [block_received |-> 0, peer_id |-> peer_id,
     time_sent |-> None, send_size |-> 0, tcp_window_size |-> 0]

\* A send record that is born with a window size.
BlockSent_Windowed(block_received, peer_id) ==
    [block_received |-> block_received, peer_id |-> peer_id,
     time_sent |-> None, send_size |-> 0, tcp_window_size |-> 1500]

BlockSent(block_received, peer_id) ==
    [block_received |-> block_received, peer_id |-> peer_id,
     time_sent |-> None, send_size |-> 0, tcp_window_size |-> 0]

\* del d[key]
Del(d, key) == [k \in DOMAIN d \ {key} |-> d[k]]
\* d[key] = value
Put(d, key, value) == [k \in DOMAIN d \cup {key} |-> IF k = key THEN value ELSE d[k]]

(***************************************************************************)
(* The input.  The n-th line of the file carries the n-th second as its    *)
(* timestamp and ends with a newline; the text after the timestamp is one  *)
(* of the lines below.  Two raw lines carry no timestamp: one is blank,    *)
(* one has no space.                                                       *)
(***************************************************************************)
MaxLines == 4            \* lines of a file of Spec
MaxStamp == 12           \* stamped positions the line table is built for

StampDigits == <<"0", "1", "2", "3", "4", "5", "6", "7", "8", "9">>
Stamp(n) ==
    "2025-06-25T20:15:" \o StampDigits[(n \div 10) + 1]
        \o StampDigits[(n % 10) + 1] \o "Z"
Stamped(n, text) == Stamp(n) \o " " \o text \o "\n"

RECEIVE_aa ==
    "[cmpctblock] Initialized PartiallyDownloadedBlock for block aa using a cmpctblock of 100 bytes"
RECEIVE_bb ==
    "[msghand] [cmpctblock:debug] Initialized PartiallyDownloadedBlock for block bb using a cmpctblock of 250 bytes"
RECEIVE_cc ==
    "[cmpctblock] Initialized PartiallyDownloadedBlock for block cc using a cmpctblock of 75 bytes"
RECONSTRUCT_aa ==
    "[cmpctblock] Successfully reconstructed block aa with 1 txn prefilled, 2 txn from mempool (incl at least 0 from extra pool) and 0 txn (0 bytes) requested"
RECONSTRUCT_bb ==
    "[cmpctblock] Successfully reconstructed block bb with 1 txn prefilled, 9 txn from mempool (incl at least 1 from extra pool) and 3 txn (450 bytes) requested"
ANNOUNCE_aa_7 ==
    "[net] PeerManager::NewPoWValidBlock sending header-and-ids aa to peer=7"
ANNOUNCE_bb_8 ==
    "[net] PeerManager::NewPoWValidBlock sending header-and-ids bb to peer=8"
REQUESTED_aa_8 ==
    "[msghand] [net_processing.cpp:2420] [ProcessGetBlockData] [net] received getdata for: cmpctblock aa peer=8"
SEND_120_7 == "[net] sending cmpctblock (120 bytes) peer=7"
SEND_0_8 == "[net] sending cmpctblock (0 bytes) peer=8"
SEND_300_8 == "[net] sending cmpctblock (300 bytes) peer=8"
MAX_SEND_1500 == "[net]     - Max send per-rtt: 1500 bytes"
MAX_SEND_3000 == "[net]     - Max send per-rtt: 3000 bytes"
OTHER_CATEGORY == "[validation] sending cmpctblock (120 bytes) peer=7"
BAD_ANNOTATION == "[not an annotation] [net] sending cmpctblock (120 bytes) peer=7"
NO_SPACE == "UpdateTip:new\n"
BLANK == "  \t\n"

Texts ==
    {RECEIVE_aa, RECEIVE_bb, RECEIVE_cc, RECONSTRUCT_aa, RECONSTRUCT_bb,
     ANNOUNCE_aa_7,
     ANNOUNCE_bb_8, REQUESTED_aa_8, SEND_120_7, SEND_0_8, MAX_SEND_1500,
     OTHER_CATEGORY, BAD_ANNOTATION}

AllTexts == Texts \cup {SEND_300_8, MAX_SEND_3000}

\* The lines a file of Spec may hold at position n.
\* Lines whose stamp names no time: its second is 60.
NoTimeLines == {Stamped(60, t) : t \in {RECEIVE_aa, RECONSTRUCT_aa}}

\* The n-th line of a file; a line whose stamp names no time is not the last
\* line of a file of MaxLines lines.
Lines(n) ==
    IF n <= MaxLines
    THEN {Stamped(n, t) : t \in Texts} \cup {NO_SPACE, BLANK}
             \cup (IF n < MaxLines THEN NoTimeLines ELSE {})
    ELSE {}

\* Lines written as a category annotation, or none, and a body that one of
\* the patterns matches: reason is the pattern's reason, category the
\* category the pattern is listed under.
CategoryVocab ==
    {[text |-> "", category |-> None],
     [text |-> "[net] ", category |-> Some("net")],
     [text |-> "[cmpctblock] ", category |-> Some("cmpctblock")],
     [text |-> "[validation] ", category |-> Some("validation")]}

PatternBodies ==
    {[text |-> "Initialized PartiallyDownloadedBlock for block aa using a cmpctblock of 100 bytes",
      reason |-> "CB_RECEIVE", category |-> "cmpctblock"],
     [text |-> "Successfully reconstructed block aa with 1 txn prefilled, 2 txn from mempool (incl at least 0 from extra pool) and 4 txn (900 bytes) requested",
      reason |-> "CB_RECONSTRUCTION", category |-> "cmpctblock"],
     [text |-> "PeerManager::NewPoWValidBlock sending header-and-ids aa to peer=7",
      reason |-> "CB_TO_ANNOUNCE", category |-> "net"],
     [text |-> "received getdata for: cmpctblock aa peer=7",
      reason |-> "CB_REQUESTED", category |-> "net"],
     [text |-> "sending cmpctblock (120 bytes) peer=7",
      reason |-> "CB_SEND", category |-> "net"],
     [text |-> "- Max send per-rtt: 1500 bytes",
      reason |-> "NET_MAX_SEND", category |-> "net"]}

ClassifyTexts == {c.text \o b.text : c \in CategoryVocab, b \in PatternBodies}

\* Two stamps of one second, the later one with microseconds, and a stamp
\* whose second is 60.
Stamps == {Stamp(1), "2025-06-25T20:15:01.500000Z", Stamp(60)}

StampTexts == {RECEIVE_aa, RECONSTRUCT_aa, ANNOUNCE_aa_7, SEND_120_7}

\* process_log_generator and we_care on every line of the model, computed once.
Parse ==
    [line \in {Stamped(n, t) : n \in 1..MaxStamp, t \in AllTexts \cup ClassifyTexts}
                 \cup {Stamped(60, t) : t \in AllTexts}
                 \cup {s \o " " \o t \o "\n" : s \in Stamps, t \in StampTexts}
                 \cup {NO_SPACE, BLANK} |-> Yielded(line)]

(***************************************************************************)
(* src/compactblocks/logsparser.py: parse_cb_log.                          *)
(***************************************************************************)
Init ==
    /\ log = <<>>
    /\ status = "running"
    /\ error = ""
    /\ stdout = ""
    /\ recv_heap = <<>>
    /\ sent_heap = <<>>
    /\ blocks_received = <<>>
    /\ blocks_sent = <<>>
    /\ pending_block_send = 0
    /\ pending_max_send = 0
    /\ hash_pending_reconstruction = None
    /\ returned = FALSE
    /\ parts = None
    /\ parsed = None
    /\ main_received = <<>>
    /\ main_sent = <<>>
    /\ main_todo = <<>>
    /\ main_totals = <<>>
    /\ main_status = "idle"
    /\ main_error = ""
    /\ over_sent = <<>>
    /\ over_locals = <<>>
    /\ over_status = "idle"
    /\ over_error = ""

\* The loop takes the next line of the file.
Take(line) ==
    /\ status = "running"
    /\ log' = Append(log, line)
    /\ UNCHANGED <<returned, parts, parsed, stats>>

Continue == status' = "running" /\ error' = ""
Abort(exc) == status' = "aborted" /\ error' = exc

\* print(f"Warning: Malformed logline: {logline}\n"), logline the stripped
\* line; print ends what it writes with a newline of its own.
MALFORMED_WARNING(logline) ==
    "Warning: Malformed logline: " \o logline \o "\n" \o "\n"

\* print(f"Warning: Message found reconstructing block {blockhash}, ...")
RECONSTRUCTION_WARNING(blockhash) ==
    "Warning: Message found reconstructing block " \o blockhash
        \o ", which we didn't expect." \o "\n"

\* if line: (false) -- a blank line is not yielded.
BlankLine(line, what) ==
    /\ what.kind = "blank"
    /\ Take(line)
    /\ Continue
    /\ stdout' = ""
    /\ UNCHANGED engine

\* A generator that skips the line its constructor raised on.
ParseError_Skips(line, what) ==
    /\ what.kind = "raise"
    /\ Take(line)
    /\ Continue
    /\ stdout' = ""
    /\ UNCHANGED engine

\* LogEntry(line) raises: the exception leaves the generator and the pass.
ParseError(line, what) ==
    /\ what.kind = "raise"
    /\ Take(line)
    /\ Abort(what.exc)
    /\ stdout' = ""
    /\ UNCHANGED engine

\* entry_category = entry.metadata.category, on an entry the constructor left
\* without metadata: the attribute was never set.
MalformedOutcome == Abort("AttributeError")

\* A line with no space: the constructor prints the warning and returns, the
\* entry is yielded all the same, and we_care reads entry.metadata.
MalformedLine(line, what) ==
    /\ what.kind = "bare"
    /\ Take(line)
    /\ MalformedOutcome
    /\ stdout' = MALFORMED_WARNING(strip(line))
    /\ UNCHANGED engine

\* why == ReasonsToCare.WE_DONT: continue
Uninteresting(line, what) ==
    /\ what.kind = "entry"
    /\ what.why = "WE_DONT"
    /\ Take(line)
    /\ Continue
    /\ stdout' = ""
    /\ UNCHANGED engine

\* A pass that keeps the record of a block it never saw reconstructed.
DiscardPending_Keep(received, pending) == received

\* if hash_pending_reconstruction is not None: del blocks_received[...]
DiscardPending(received, pending) ==
    IF pending # None THEN Del(received, pending[1]) ELSE received

\* BlockReceived(time_received=what.time(), received_size=int(...)): the
\* record, or the exception of what.time().
Received(what) ==
    IF time(what.time_str).kind = "raise" THEN time(what.time_str)
    ELSE BlockReceived(time(what.time_str).value,
                       int(what.data["cmpctblock_bytes"]))

\* case ReasonsToCare.CB_RECEIVE
CbReceive(line, what) ==
    /\ what.kind = "entry"
    /\ what.why = "CB_RECEIVE"
    /\ Take(line)
    /\ stdout' = ""
    /\ IF /\ hash_pending_reconstruction # None
          /\ hash_pending_reconstruction[1] \notin DOMAIN blocks_received
       THEN /\ Abort("KeyError")
            /\ UNCHANGED engine
       ELSE IF time(what.time_str).kind = "raise"
       THEN \* the binding of the pending hash is deleted and the slot set
            \* when what.time() raises
            /\ Abort(time(what.time_str).exc)
            /\ hash_pending_reconstruction' = Some(what.data["blockhash"])
            /\ blocks_received' =
                   DiscardPending(blocks_received, hash_pending_reconstruction)
            /\ UNCHANGED <<recv_heap, sent_heap, blocks_sent,
                           pending_block_send, pending_max_send>>
       ELSE /\ Continue
            /\ hash_pending_reconstruction' = Some(what.data["blockhash"])
            /\ recv_heap' = Append(recv_heap, Received(what))
            /\ blocks_received' =
                   Put(DiscardPending(blocks_received,
                                      hash_pending_reconstruction),
                       what.data["blockhash"], Len(recv_heap) + 1)
            /\ UNCHANGED <<sent_heap, blocks_sent, pending_block_send,
                           pending_max_send>>

\* A pass that records every reconstruction, expected or not.
Unexpected_Never(pending, blockhash) == FALSE

\* A pass that takes an empty slot for an expected reconstruction.
Unexpected_OnlyOther(pending, blockhash) ==
    pending # None /\ pending # Some(blockhash)

\* if hash_pending_reconstruction != what.data['blockhash']
Unexpected(pending, blockhash) == pending # Some(blockhash)

\* A pass that stamps every reconstruction with the start of the epoch.
Reconstruct_Epoch(block, what) ==
    [block EXCEPT !.received_tx_missing = int(what.data["requested_count"]),
                  !.bytes_missing = int(what.data["requested_bytes"]),
                  !.time_reconstructed = Some(<<1970, 1, 1, 0, 0, 0, 0>>)]

\* A pass that forgets the reconstruction time.
Reconstruct_NoTime(block, what) ==
    [block EXCEPT !.received_tx_missing = int(what.data["requested_count"]),
                  !.bytes_missing = int(what.data["requested_bytes"])]

\* block.received_tx_missing = ...; block.bytes_missing = ...;
\* block.time_reconstructed = what.time() -- the record as the three
\* assignments leave it: the third is not made when what.time() raises.
Reconstruct(block, what) ==
    [block EXCEPT !.received_tx_missing = int(what.data["requested_count"]),
                  !.bytes_missing = int(what.data["requested_bytes"]),
                  !.time_reconstructed =
                      IF time(what.time_str).kind = "raise" THEN @
                      ELSE Some(time(what.time_str).value)]

\* A pass that leaves the reconstructed block in the slot.
ClearPending_Keep(pending) == pending

\* Nothing is pending now: hash_pending_reconstruction = None
ClearPending(pending) == None

\* case ReasonsToCare.CB_RECONSTRUCTION
CbReconstruction(line, what) ==
    /\ what.kind = "entry"
    /\ what.why = "CB_RECONSTRUCTION"
    /\ Take(line)
    /\ IF Unexpected(hash_pending_reconstruction, what.data["blockhash"])
       THEN /\ Continue
            /\ stdout' = RECONSTRUCTION_WARNING(what.data["blockhash"])
            /\ UNCHANGED engine
       ELSE IF what.data["blockhash"] \notin DOMAIN blocks_received
       THEN /\ Abort("KeyError")
            /\ stdout' = ""
            /\ UNCHANGED engine
       ELSE /\ IF time(what.time_str).kind = "raise"
               THEN /\ Abort(time(what.time_str).exc)
                    /\ UNCHANGED hash_pending_reconstruction
               ELSE /\ Continue
                    /\ hash_pending_reconstruction' =
                           ClearPending(hash_pending_reconstruction)
            /\ stdout' = ""
            /\ recv_heap' =
                   [recv_heap EXCEPT ![blocks_received[what.data["blockhash"]]] =
                        Reconstruct(@, what)]
            /\ UNCHANGED <<sent_heap, blocks_received, blocks_sent,
                           pending_block_send, pending_max_send>>

\* A pass without the guard for blocks that were never received.
Relayed_Always(received, blockhash) == TRUE

\* if blockhash not in blocks_received: continue
Relayed(received, blockhash) == blockhash \in DOMAIN received

\* A pass that puts the newest send of a block first.
AppendSent_Prepend(sent, blockhash, ref) ==
    Put(sent, blockhash,
        IF blockhash \in DOMAIN sent THEN <<ref>> \o sent[blockhash]
        ELSE <<ref>>)

\* A pass that keeps only the last send of a block.
AppendSent_Overwrite(sent, blockhash, ref) == Put(sent, blockhash, <<ref>>)

\* A pass that starts the send map anew at every transmission.
AppendSent_Fresh(sent, blockhash, ref) == [k \in {blockhash} |-> <<ref>>]

\* blocks_sent[blockhash].append(ref) on the defaultdict(list)
AppendSent(sent, blockhash, ref) ==
    Put(sent, blockhash,
        IF blockhash \in DOMAIN sent THEN Append(sent[blockhash], ref)
        ELSE <<ref>>)

\* case ReasonsToCare.CB_TO_ANNOUNCE | ReasonsToCare.CB_REQUESTED
CbAnnounce(line, what) ==
    /\ what.kind = "entry"
    /\ what.why \in {"CB_TO_ANNOUNCE", "CB_REQUESTED"}
    /\ Take(line)
    /\ stdout' = ""
    /\ IF ~Relayed(blocks_received, what.data["blockhash"])
       THEN /\ Continue
            /\ UNCHANGED engine
       ELSE IF what.data["blockhash"] \notin DOMAIN blocks_received
       THEN /\ Abort("KeyError")
            /\ UNCHANGED engine
       ELSE /\ Continue
            /\ sent_heap' =
                   Append(sent_heap,
                          BlockSent(blocks_received[what.data["blockhash"]],
                                    int(what.data["peer_id"])))
            /\ pending_block_send' = Len(sent_heap) + 1
            /\ blocks_sent' =
                   AppendSent(blocks_sent, what.data["blockhash"],
                              Len(sent_heap) + 1)
            /\ UNCHANGED <<recv_heap, blocks_received, pending_max_send,
                           hash_pending_reconstruction>>

\* A pass without the assertion (python -O).
PeerMatches_Unchecked(pending, what) == TRUE

\* assert pending_block_send.peer_id == int(what.data['peer_id'])
PeerMatches(pending, what) == pending.peer_id = int(what.data["peer_id"])

\* A pass that fills the size and forgets the time.
Send_NoTime(pending, what) ==
    [pending EXCEPT !.send_size = int(what.data["cmpctblock_bytes"])]

\* pending_block_send.send_size = ...; pending_block_send.time_sent =
\* what.time() -- the record as the two assignments leave it: the second is
\* not made when what.time() raises.
Send(pending, what) ==
    [pending EXCEPT !.send_size = int(what.data["cmpctblock_bytes"]),
                    !.time_sent =
                        IF time(what.time_str).kind = "raise" THEN @
                        ELSE Some(time(what.time_str).value)]

\* A pass that asserts the peer before it looks at the slot.
DropSend_Asserts == Abort("AssertionError") /\ UNCHANGED engine

\* if not pending_block_send: continue
DropSend == Continue /\ UNCHANGED engine

\* A pass that leaves the sent record in the first slot.
SentPending_Keep(pending) == pending

\* pending_block_send = None, after the record went to pending_max_send
SentPending(pending) == 0

\* case ReasonsToCare.CB_SEND
CbSend(line, what) ==
    /\ what.kind = "entry"
    /\ what.why = "CB_SEND"
    /\ Take(line)
    /\ stdout' = ""
    /\ IF pending_block_send = 0
       THEN DropSend
       ELSE IF ~PeerMatches(sent_heap[pending_block_send], what)
       THEN /\ Abort("AssertionError")
            /\ UNCHANGED engine
       ELSE /\ sent_heap' =
                   [sent_heap EXCEPT ![pending_block_send] = Send(@, what)]
            /\ IF time(what.time_str).kind = "raise"
               THEN /\ Abort(time(what.time_str).exc)
                    /\ UNCHANGED <<pending_block_send, pending_max_send>>
               ELSE /\ Continue
                    /\ pending_max_send' = pending_block_send
                    /\ pending_block_send' = SentPending(pending_block_send)
            /\ UNCHANGED <<recv_heap, blocks_received, blocks_sent,
                           hash_pending_reconstruction>>

\* A pass that writes the window size where the size of the send goes.
MaxSend_IntoSize(pending, what) ==
    [pending EXCEPT !.send_size = int(what.data["max_send_bytes"])]

\* pending_max_send.tcp_window_size = int(what.data['max_send_bytes'])
MaxSend(pending, what) ==
    [pending EXCEPT !.tcp_window_size = int(what.data["max_send_bytes"])]

\* case ReasonsToCare.NET_MAX_SEND
NetMaxSend(line, what) ==
    /\ what.kind = "entry"
    /\ what.why = "NET_MAX_SEND"
    /\ Take(line)
    /\ Continue
    /\ stdout' = ""
    /\ IF pending_max_send = 0
       THEN UNCHANGED engine
       ELSE /\ sent_heap' =
                   [sent_heap EXCEPT ![pending_max_send] = MaxSend(@, what)]
            /\ pending_max_send' = 0
            /\ UNCHANGED <<recv_heap, blocks_received, blocks_sent,
                           pending_block_send, hash_pending_reconstruction>>

\* The file is exhausted: return blocks_received, blocks_sent
EndOfFile ==
    /\ status = "running"
    /\ status' = "done"
    /\ returned' = TRUE
    /\ stdout' = ""
    /\ UNCHANGED <<log, error, engine, parts, parsed, stats>>

Next ==
    \/ \E line \in Lines(Len(log) + 1) : BlankLine(line, Parse[line])
    \/ \E line \in Lines(Len(log) + 1) : ParseError(line, Parse[line])
    \/ \E line \in Lines(Len(log) + 1) : MalformedLine(line, Parse[line])
    \/ \E line \in Lines(Len(log) + 1) : Uninteresting(line, Parse[line])
    \/ \E line \in Lines(Len(log) + 1) : CbReceive(line, Parse[line])
    \/ \E line \in Lines(Len(log) + 1) : CbReconstruction(line, Parse[line])
    \/ \E line \in Lines(Len(log) + 1) : CbAnnounce(line, Parse[line])
    \/ \E line \in Lines(Len(log) + 1) : CbSend(line, Parse[line])
    \/ \E line \in Lines(Len(log) + 1) : NetMaxSend(line, Parse[line])
    \/ EndOfFile

Spec == Init /\ [][Next]_vars

(***************************************************************************)
(* The end-to-end scenario: files of up to MaxScenarioLines lines, each    *)
(* one of the scenario's five lines.                                       *)
(***************************************************************************)
MaxScenarioLines == 5

ScenarioTexts ==
    {RECEIVE_aa, ANNOUNCE_aa_7, SEND_120_7, MAX_SEND_1500, RECONSTRUCT_aa}

ScenarioLines(n) ==
    IF n <= MaxScenarioLines THEN {Stamped(n, t) : t \in ScenarioTexts} ELSE {}

NextScenario ==
    \/ \E line \in ScenarioLines(Len(log) + 1) : CbReceive(line, Parse[line])
    \/ \E line \in ScenarioLines(Len(log) + 1) : CbReconstruction(line, Parse[line])
    \/ \E line \in ScenarioLines(Len(log) + 1) : CbAnnounce(line, Parse[line])
    \/ \E line \in ScenarioLines(Len(log) + 1) : CbSend(line, Parse[line])
    \/ \E line \in ScenarioLines(Len(log) + 1) : NetMaxSend(line, Parse[line])
    \/ EndOfFile

ScenarioSpec == Init /\ [][NextScenario]_vars

(***************************************************************************)
(* Two transmissions to different peers, interleaved.  A file starts with  *)
(* the lines that give the blocks their receive records and goes on with   *)
(* the lines of the two transmissions, each in its own order (Announced or *)
(* Requested, Sent, WindowSizeLogged), merged in any way.  The two are for *)
(* the same block (aa to peer 7, aa to peer 8) or for different blocks (aa *)
(* to peer 7, bb to peer 8); the second line of the file tells which.      *)
(***************************************************************************)
FirstTransmission == <<ANNOUNCE_aa_7, SEND_120_7, MAX_SEND_1500>>
SecondSameBlock == <<REQUESTED_aa_8, SEND_300_8, MAX_SEND_3000>>
SecondOtherBlock == <<ANNOUNCE_bb_8, SEND_300_8, MAX_SEND_3000>>

\* How many lines of the transmission the file holds so far.
Emitted(transmission) ==
    Cardinality({i \in 1..Len(log) :
                    \E k \in 1..3 : log[i] = Stamped(i, transmission[k])})

\* The next line of the transmission.
NextOf(transmission, n, emitted) ==
    IF emitted < 3 THEN {Stamped(n, transmission[emitted + 1])} ELSE {}

Merge(second, n) ==
    NextOf(FirstTransmission, n, Emitted(FirstTransmission))
        \cup NextOf(second, n, Emitted(second))

OtherBlocks == Len(log) >= 2 /\ log[2] = Stamped(2, RECONSTRUCT_aa)

InterleaveLines(n) ==
    IF n = 1 THEN {Stamped(1, RECEIVE_aa)}
    ELSE IF n = 2 THEN {Stamped(2, RECONSTRUCT_aa)} \cup Merge(SecondSameBlock, 2)
    ELSE IF ~OtherBlocks THEN Merge(SecondSameBlock, n)
    ELSE IF n = 3 THEN {Stamped(3, RECEIVE_bb)}
    ELSE Merge(SecondOtherBlock, n)

NextInterleave ==
    \/ \E line \in InterleaveLines(Len(log) + 1) : CbReceive(line, Parse[line])
    \/ \E line \in InterleaveLines(Len(log) + 1) : CbReconstruction(line, Parse[line])
    \/ \E line \in InterleaveLines(Len(log) + 1) : CbAnnounce(line, Parse[line])
    \/ \E line \in InterleaveLines(Len(log) + 1) : CbSend(line, Parse[line])
    \/ \E line \in InterleaveLines(Len(log) + 1) : NetMaxSend(line, Parse[line])
    \/ EndOfFile

InterleaveSpec == Init /\ [][NextInterleave]_vars

(***************************************************************************)
(* The line parser on its own: LogEntry(line) for the lines written as     *)
(* <timestamp><gap>([<group>] )*<body>, with up to MaxGroups groups.  No   *)
(* body of BodyVocab starts with a bracket group.  One gap is two spaces   *)
(* and a no-break space (U+00A0), one group has a level with a letter      *)
(* outside ASCII, and one group ends in a newline, which a line read from  *)
(* a file cannot hold and a line given to LogEntry directly can.           *)
(***************************************************************************)
MaxGroups == 3

\* A timestamp and the whitespace after it.
HeadVocab ==
    {[time_str |-> "2025-06-25T20:15:37.882709Z", gap |-> " "],
     [time_str |-> "T1", gap |-> "   "]}
GroupVocab ==
    {"main", "init", "net", "net:debug", "validation.cpp:12", "operator.h:7",
     "UpdateTip", "scriptch.3", "my wallet", "net:débug", "main\n"}
BodyVocab == {"UpdateTip: new best=00", "msg [net] x", "[] [net] x", "[unclosed x", ""}

RECURSIVE Seqs(_, _)
Seqs(S, n) ==
    IF n = 0 THEN {<<>>}
    ELSE Seqs(S, n - 1)
             \cup {Append(q, x) : q \in {r \in Seqs(S, n - 1) : Len(r) = n - 1},
                                  x \in S}

Parts ==
    {[time_str |-> h.time_str, gap |-> h.gap, groups |-> g, body |-> b] :
         h \in HeadVocab, g \in Seqs(GroupVocab, MaxGroups), b \in BodyVocab}

RECURSIVE Bracketed(_)
Bracketed(groups) ==
    IF groups = <<>> THEN ""
    ELSE "[" \o Head(groups) \o "] " \o Bracketed(Tail(groups))

Render(p) == p.time_str \o p.gap \o Bracketed(p.groups) \o p.body

\* The line a Metadata and a body stand for, in the format the source gives:
\* {time} [{thread}] [{file:line}] [{function}] [{logcategory:loglevel}]
\* [walletname] { BODY }, every annotation but the time optional.
Annotation(field) == IF field = None THEN "" ELSE "[" \o field[1] \o "] "

Located(file, line_num) ==
    IF file = None THEN ""
    ELSE "[" \o file[1] \o ":" \o ToString(line_num[1]) \o "] "

Categorized(category, loglevel) ==
    IF category = None THEN ""
    ELSE IF loglevel = None THEN "[" \o category[1] \o "] "
    ELSE "[" \o category[1] \o ":" \o loglevel[1] \o "] "

Rebuild(metadata, body) ==
    metadata.time_str \o " " \o Annotation(metadata.thread)
        \o Located(metadata.file, metadata.line_num)
        \o Annotation(metadata.function)
        \o Categorized(metadata.category, metadata.loglevel)
        \o Annotation(metadata.wallet_name) \o body

\* entry = LogEntry(line)
Construct(p) ==
    /\ parts' = Some(p)
    /\ parsed' = Some(LogEntry(Render(p)))
    /\ UNCHANGED <<log, status, error, stdout, engine, returned, stats>>

\* One line is constructed, once.
NextParse == parts = None /\ \E p \in Parts : Construct(p)

ParseSpec == Init /\ [][NextParse]_vars

(***************************************************************************)
(* The classifier in the pass: files of up to MaxClassifyLines lines, each *)
(* a body one of the patterns matches under each of the categories of      *)
(* CategoryVocab.                                                          *)
(***************************************************************************)
MaxClassifyLines == 3

ClassifyLines(n) ==
    IF n <= MaxClassifyLines THEN {Stamped(n, t) : t \in ClassifyTexts} ELSE {}

NextClassify ==
    \/ \E line \in ClassifyLines(Len(log) + 1) : Uninteresting(line, Parse[line])
    \/ \E line \in ClassifyLines(Len(log) + 1) : CbReceive(line, Parse[line])
    \/ \E line \in ClassifyLines(Len(log) + 1) : CbReconstruction(line, Parse[line])
    \/ \E line \in ClassifyLines(Len(log) + 1) : CbAnnounce(line, Parse[line])
    \/ \E line \in ClassifyLines(Len(log) + 1) : CbSend(line, Parse[line])
    \/ \E line \in ClassifyLines(Len(log) + 1) : NetMaxSend(line, Parse[line])
    \/ EndOfFile

ClassifySpec == Init /\ [][NextClassify]_vars

(***************************************************************************)
(* src/compactlogsparser.py: main, the statistics it computes over the two *)
(* maps its parse_cb_log returned.  That pass binds a hash to a            *)
(* BlockReceived with cb_bytes_from_extra_pool = None and never deletes a  *)
(* hash, so every send list belongs to a hash of the receive map; with     *)
(* each hash received once, the block_received of a send record is the     *)
(* record of its hash and is written here as the hash.  blocks_sent is a   *)
(* dict, which keeps its keys in the order of their insertion (the order   *)
(* in which the hashes were first announced or requested): it is the       *)
(* sequence of its items, each a blockhash with its sent_list.             *)
(***************************************************************************)
MaxStatsSends == 2       \* send records in the two maps given to main

\* BlockReceived.time_reconstructed defaults to datetime.now() of the import.
IMPORT_TIME == <<2026, 1, 1, 0, 0, 0, 0>>

\* The receive records a pass can return: a block of 100 or 250 bytes, not
\* reconstructed, or reconstructed with 3 transactions of 450 bytes requested.
StatsReceiveRecords ==
    {[time_received |-> <<2025, 6, 25, 20, 15, 1, 0>>,
      time_reconstructed |-> IF missing.count = 0 THEN IMPORT_TIME
                             ELSE <<2025, 6, 25, 20, 15, 2, 0>>,
      cb_size_bytes |-> size, cb_missing_bytes |-> missing.bytes,
      cb_missing_tx_count |-> missing.count,
      cb_bytes_from_extra_pool |-> None] :
         size \in {100, 250},
         missing \in {[bytes |-> 0, count |-> 0], [bytes |-> 450, count |-> 3]}}

\* The send records of hash h a pass can return: 120 or 300 bytes sent to
\* peer 7, the window size never logged (0) or logged as 100 or 1500.
StatsSendRecords(h) ==
    {[block_received |-> h, peer_id |-> 7,
      time_sent |-> <<2025, 6, 25, 20, 15, 3, 0>>,
      cb_bytes_sent |-> sent, tcp_window_bytes |-> window] :
         sent \in {120, 300}, window \in {0, 100, 1500}}

StatsReceiveMaps ==
    UNION {[H -> StatsReceiveRecords] : H \in SUBSET {"aa", "bb"}}

\* The send lists of hash h with at most n records.
StatsSendLists(h, n) == UNION {[1..k -> StatsSendRecords(h)] : k \in 1..n}

\* One item of blocks_sent.items().
Item(blockhash, sent_list) == [blockhash |-> blockhash, sent_list |-> sent_list]

\* defaultdict(list): a hash is a key once a record was appended for it, and
\* the keys stand in the order in which that first happened: no key, one
\* key, or two keys in either order.
StatsSendMaps(received) ==
    {<<>>}
    \cup UNION {{<<Item(h, list)>> : list \in StatsSendLists(h, MaxStatsSends)} :
                   h \in DOMAIN received}
    \cup UNION {UNION {{<<Item(pair[1], first), Item(pair[2], second)>> :
                          second \in StatsSendLists(pair[2],
                                                    MaxStatsSends - Len(first))} :
                      first \in StatsSendLists(pair[1], MaxStatsSends - 1)} :
                   pair \in {p \in (DOMAIN received) \X (DOMAIN received) :
                                p[1] # p[2]}}

NoTotals ==
    [total_cb_sent |-> 0, total_prefilled_cb_sent |-> 0,
     total_prefill_bytes |-> 0, total_prefill_extra_bytes |-> 0,
     total_available_bytes_in_all_windows |-> 0,
     total_available_bytes_in_needed_windows |-> 0,
     prefills_that_fit |-> 0, no_extra_prefills_that_fit |-> 0,
     exceeded_without_prefill |-> 0]

\* blocks_received, blocks_sent = parse_cb_log(filepath)
StatsInit ==
    /\ log = <<>>
    /\ status = "done"
    /\ error = ""
    /\ stdout = ""
    /\ recv_heap = <<>>
    /\ sent_heap = <<>>
    /\ blocks_received = <<>>
    /\ blocks_sent = <<>>
    /\ pending_block_send = 0
    /\ pending_max_send = 0
    /\ hash_pending_reconstruction = None
    /\ returned = TRUE
    /\ parts = None
    /\ parsed = None
    /\ main_received \in StatsReceiveMaps
    /\ main_sent \in StatsSendMaps(main_received)
    /\ main_todo = <<>>
    /\ main_totals = NoTotals
    /\ main_status = "start"
    /\ main_error = ""
    /\ over_sent = <<>>
    /\ over_locals = <<>>
    /\ over_status = "idle"
    /\ over_error = ""

\* for blockhash, sent_list in blocks_sent.items():
\*     if blockhash not in blocks_received: continue
\*     for sent in sent_list:
\* The visits of the two loops, each a blockhash with one record of its
\* sent_list, for the items in the order the dict keeps them in.
RECURSIVE Visits(_, _)
Visits(received, items) ==
    IF items = <<>> THEN <<>>
    ELSE IF Head(items).blockhash \in DOMAIN received
    THEN [i \in 1..Len(Head(items).sent_list) |->
              <<Head(items).blockhash, Head(items).sent_list[i]>>]
             \o Visits(received, Tail(items))
    ELSE Visits(received, Tail(items))

MainRaise(exc) == main_status' = "raised" /\ main_error' = exc

\* fail_rate = len(blocks_failing_reconstruction) / len(blocks_received)
MainStart ==
    /\ main_status = "start"
    /\ IF DOMAIN main_received = {}
       THEN MainRaise("ZeroDivisionError") /\ main_todo' = <<>>
       ELSE /\ main_status' = "loop"
            /\ main_error' = ""
            /\ main_todo' = Visits(main_received, main_sent)
    /\ UNCHANGED <<log, status, error, stdout, engine, returned, parts, parsed,
                   main_received, main_sent, main_totals,
                   over_sent, over_locals, over_status, over_error>>

\* prefill_size = sent.cb_bytes_sent - received_size
PrefillSize(sent, received) == sent.cb_bytes_sent - received.cb_size_bytes

\* bytes_left_in_tcp_window = sent.tcp_window_bytes - bytes_used_in_tcp_window
BytesLeft(sent, received) ==
    sent.tcp_window_bytes - (received.cb_size_bytes % sent.tcp_window_bytes)

\* sent.cb_bytes_sent - received_size - received.cb_missing_bytes
ExtraPool(sent, received) ==
    sent.cb_bytes_sent - received.cb_size_bytes - received.cb_missing_bytes

Count(flag) == IF flag THEN 1 ELSE 0

\* The totals when the division by tcp_window_bytes raises.
Counted(totals, sent, received) ==
    [totals EXCEPT !.total_cb_sent = @ + 1,
                   !.total_prefill_bytes = @ + PrefillSize(sent, received)]

\* The totals after one send record.
Tallied(totals, sent, received, prefill, left, extra) ==
    [totals EXCEPT
        !.total_cb_sent = @ + 1,
        !.total_prefill_bytes = @ + prefill,
        !.exceeded_without_prefill =
            @ + Count(received.cb_size_bytes \div sent.tcp_window_bytes > 1),
        !.total_available_bytes_in_all_windows = @ + left,
        !.total_available_bytes_in_needed_windows =
            @ + (IF prefill > 0 THEN left ELSE 0),
        !.total_prefilled_cb_sent = @ + Count(prefill > 0),
        !.prefills_that_fit = @ + Count(prefill > 0 /\ prefill <= left),
        !.total_prefill_extra_bytes = @ + (IF prefill > 0 THEN extra ELSE 0),
        !.no_extra_prefills_that_fit =
            @ + Count(prefill > 0 /\ prefill - extra <= left)]

\* received.cb_bytes_from_extra_pool = ... , under if prefill_size > 0
Pooled(received, prefill, extra) ==
    IF prefill > 0 THEN [received EXCEPT !.cb_bytes_from_extra_pool = Some(extra)]
    ELSE received

\* One turn of the inner loop, for the send record sent of hash h.
MainSend(h, sent) ==
    /\ IF sent.tcp_window_bytes = 0
       THEN /\ MainRaise("ZeroDivisionError")
            /\ main_totals' = Counted(main_totals, sent, main_received[h])
            /\ main_received' = main_received
       ELSE /\ main_status' = "loop"
            /\ main_error' = ""
            /\ main_totals' =
                   Tallied(main_totals, sent, main_received[h],
                           PrefillSize(sent, main_received[h]),
                           BytesLeft(sent, main_received[h]),
                           ExtraPool(sent, main_received[h]))
            /\ main_received' =
                   [main_received EXCEPT ![h] =
                        Pooled(@, PrefillSize(sent, main_received[h]),
                               ExtraPool(sent, main_received[h]))]
    /\ main_todo' = Tail(main_todo)
    /\ UNCHANGED <<log, status, error, stdout, engine, returned, parts, parsed,
                   main_sent, over_sent, over_locals, over_status, over_error>>

MainLoop ==
    /\ main_status = "loop"
    /\ main_todo # <<>>
    /\ MainSend(Head(main_todo)[1], Head(main_todo)[2])

\* After the loops: already_over_rtt_rate = ... / total_cb_sent and the
\* printed rates; where total_prefill_bytes > 0 a record was counted in
\* total_prefilled_cb_sent, so the later divisions do not raise.
MainReport ==
    /\ main_status = "loop"
    /\ main_todo = <<>>
    /\ IF main_totals.total_cb_sent = 0
       THEN MainRaise("ZeroDivisionError")
       ELSE main_status' = "reported" /\ main_error' = ""
    /\ UNCHANGED <<log, status, error, stdout, engine, returned, parts, parsed,
                   main_received, main_sent, main_todo, main_totals,
                   over_sent, over_locals, over_status, over_error>>

\* compute_stats, make_plots and output_csv: each calls create_dataframes,
\* which copies the fields of the records into the rows of new frames; the
\* derived columns, the plots and the csv file are made from those frames,
\* and no record of the two maps is assigned to.
\* compute_stats(blocks_received, blocks_sent): the statistics are printed.
MainComputeStats ==
    /\ main_status = "reported"
    /\ main_status' = "computed"
    /\ UNCHANGED <<log, status, error, stdout, engine, returned, parts, parsed,
                   main_received, main_sent, main_todo, main_totals, main_error,
                   over_sent, over_locals, over_status, over_error>>

\* make_plots: the histogram is drawn and plt.show() waits until its window
\* is closed.
MainHistogram ==
    /\ main_status = "computed"
    /\ main_status' = "histogram"
    /\ UNCHANGED <<log, status, error, stdout, engine, returned, parts, parsed,
                   main_received, main_sent, main_todo, main_totals, main_error,
                   over_sent, over_locals, over_status, over_error>>

\* The window was closed: the scatter plot is drawn and plt.show() waits
\* until its window is closed.
MainScatter ==
    /\ main_status = "histogram"
    /\ main_status' = "scatter"
    /\ UNCHANGED <<log, status, error, stdout, engine, returned, parts, parsed,
                   main_received, main_sent, main_todo, main_totals, main_error,
                   over_sent, over_locals, over_status, over_error>>

\* The window was closed and make_plots returns; output_csv writes
\* cb_data_output.csv and main returns.
MainOutputCsv ==
    /\ main_status = "scatter"
    /\ main_status' = "exported"
    /\ UNCHANGED <<log, status, error, stdout, engine, returned, parts, parsed,
                   main_received, main_sent, main_todo, main_totals, main_error,
                   over_sent, over_locals, over_status, over_error>>

NextStats ==
    \/ MainStart
    \/ MainLoop
    \/ MainReport
    \/ MainComputeStats
    \/ MainHistogram
    \/ MainScatter
    \/ MainOutputCsv

StatsSpec == StatsInit /\ [][NextStats]_vars

(***************************************************************************)
(* src/compactblocks/stats.py: sent_already_over_stats, on the sent frame  *)
(* create_dataframes builds.  A frame is the sequence of its rows; a rate  *)
(* is kept as <<numerator, denominator>> of the division that computes it, *)
(* a mean as <<sum, count>>.                                               *)
(***************************************************************************)
MaxOverRows == 3         \* rows of the sent frame

\* The columns create_dataframes copies from the records: blocks of 100,
\* 3100 or 4400 bytes, sent with 20 or 200 bytes more, the window 1500.
OverColumns ==
    {[received_size |-> size, send_size |-> size + prefill,
      tcp_window_size |-> 1500] :
         size \in {100, 3100, 4400}, prefill \in {20, 200}}

\* sent_df['prefill_size'] = ..., ['window_bytes_used'] = ...,
\* ['window_bytes_available'] = ..., ['rtts_without_prefill'] = ...
Derived(row) ==
    [received_size |-> row.received_size,
     send_size |-> row.send_size,
     tcp_window_size |-> row.tcp_window_size,
     prefill_size |-> row.send_size - row.received_size,
     window_bytes_used |-> row.received_size % row.tcp_window_size,
     window_bytes_available |->
         row.tcp_window_size - (row.received_size % row.tcp_window_size),
     rtts_without_prefill |-> row.received_size \div row.tcp_window_size]

OverFrames ==
    UNION {[1..n -> {Derived(row) : row \in OverColumns}] : n \in 1..MaxOverRows}

\* sent_already_over_stats(sent)
OverInit ==
    /\ log = <<>>
    /\ status = "done"
    /\ error = ""
    /\ stdout = ""
    /\ recv_heap = <<>>
    /\ sent_heap = <<>>
    /\ blocks_received = <<>>
    /\ blocks_sent = <<>>
    /\ pending_block_send = 0
    /\ pending_max_send = 0
    /\ hash_pending_reconstruction = None
    /\ returned = TRUE
    /\ parts = None
    /\ parsed = None
    /\ main_received = <<>>
    /\ main_sent = <<>>
    /\ main_todo = <<>>
    /\ main_totals = <<>>
    /\ main_status = "idle"
    /\ main_error = ""
    /\ over_sent \in OverFrames
    /\ over_locals = <<>>
    /\ over_status = "start"
    /\ over_error = ""

\* frame[mask]: the rows of the frame the mask holds for, in their order.
RECURSIVE Masked(_, _)
Masked(frame, mask) ==
    IF frame = <<>> THEN <<>>
    ELSE IF Head(mask) THEN <<Head(frame)>> \o Masked(Tail(frame), Tail(mask))
    ELSE Masked(Tail(frame), Tail(mask))

\* sent['rtts_without_prefill'] > 1
OverMask(frame) == [i \in 1..Len(frame) |-> frame[i].rtts_without_prefill > 1]

\* excessive['prefill_size'] <= excessive['window_bytes_available']
FitMask(frame) ==
    [i \in 1..Len(frame) |->
        frame[i].prefill_size <= frame[i].window_bytes_available]

RECURSIVE SumAvailable(_)
SumAvailable(frame) ==
    IF frame = <<>> THEN 0
    ELSE Head(frame).window_bytes_available + SumAvailable(Tail(frame))

\* len(excessive) / total_cb_sent if total_cb_sent > 0 else 0
OverRate(excessive, total_cb_sent) ==
    IF total_cb_sent > 0 THEN <<Len(excessive), total_cb_sent>> ELSE <<0, 1>>

\* The locals after the first two print statements.
OverLocals(sent_frame, excessive) ==
    [total_cb_sent |-> Len(sent_frame),
     excessive |-> excessive,
     already_over_rtt_rate |-> OverRate(excessive, Len(sent_frame)),
     avg_available_bytes_in_exceeded |->
         <<SumAvailable(excessive), Len(excessive)>>]

OverStart ==
    /\ over_status = "start"
    /\ over_status' = "fit"
    /\ over_locals' = OverLocals(over_sent, Masked(over_sent, OverMask(over_sent)))
    /\ UNCHANGED <<log, status, error, stdout, engine, returned, parts, parsed,
                   main_received, main_sent, main_todo, main_totals,
                   main_status, main_error, over_sent, over_error>>

\* The number the last print statement gives for the blocks that fit.
FitCount(excessive_that_fit) == Len(excessive_that_fit)

\* The locals when the division of the next statement raises:
\* excessive_that_fit is bound.
RaisedLocals(locals, excessive_that_fit) ==
    [total_cb_sent |-> locals.total_cb_sent,
     excessive |-> locals.excessive,
     already_over_rtt_rate |-> locals.already_over_rtt_rate,
     avg_available_bytes_in_exceeded |-> locals.avg_available_bytes_in_exceeded,
     excessive_that_fit |-> excessive_that_fit]

\* The locals after the last print statement.
FitLocals(locals, excessive_that_fit) ==
    [total_cb_sent |-> locals.total_cb_sent,
     excessive |-> locals.excessive,
     already_over_rtt_rate |-> locals.already_over_rtt_rate,
     avg_available_bytes_in_exceeded |-> locals.avg_available_bytes_in_exceeded,
     excessive_that_fit |-> excessive_that_fit,
     excessive_fit_rate |->
         <<FitCount(excessive_that_fit), Len(locals.excessive)>>,
     printed_fit |-> FitCount(excessive_that_fit),
     printed_excessive |-> Len(locals.excessive)]

\* excessive_that_fit = excessive['prefill_size'] <= ...
\* excessive_fit_rate = len(excessive_that_fit) / len(excessive)
OverFit ==
    /\ over_status = "fit"
    /\ IF Len(over_locals.excessive) = 0
       THEN /\ over_status' = "raised"
            /\ over_error' = "ZeroDivisionError"
            /\ over_locals' =
                   RaisedLocals(over_locals, FitMask(over_locals.excessive))
       ELSE /\ over_status' = "printed"
            /\ over_error' = ""
            /\ over_locals' = FitLocals(over_locals, FitMask(over_locals.excessive))
    /\ UNCHANGED <<log, status, error, stdout, engine, returned, parts, parsed,
                   main_received, main_sent, main_todo, main_totals,
                   main_status, main_error, over_sent>>

NextOver ==
    \/ OverStart
    \/ OverFit

OverSpec == OverInit /\ [][NextOver]_vars

(***************************************************************************)
(* Files whose timestamps are in any order.  Every line carries one of    *)
(* Stamps, whatever its position in the file, so two lines may carry the   *)
(* same time, a line may carry an earlier time than the line before it,    *)
(* and a line may carry a stamp that names no time.  The lines are those   *)
(* of one block that is received, reconstructed, announced and sent.       *)
(***************************************************************************)
MaxStampLines == 4

StampLines(n) ==
    IF n <= MaxStampLines
    THEN {s \o " " \o t \o "\n" : s \in Stamps, t \in StampTexts}
    ELSE {}

NextStamp ==
    \/ \E line \in StampLines(Len(log) + 1) : CbReceive(line, Parse[line])
    \/ \E line \in StampLines(Len(log) + 1) : CbReconstruction(line, Parse[line])
    \/ \E line \in StampLines(Len(log) + 1) : CbAnnounce(line, Parse[line])
    \/ \E line \in StampLines(Len(log) + 1) : CbSend(line, Parse[line])
    \/ EndOfFile

StampSpec == Init /\ [][NextStamp]_vars

(***************************************************************************)
(* The views of the state the properties are stated on.                    *)
(***************************************************************************)
\* The two maps with the references resolved: hash -> record, and
\* hash -> sequence of records.
ReceiveRecords == [h \in DOMAIN blocks_received |-> recv_heap[blocks_received[h]]]
SendRecords ==
    [h \in DOMAIN blocks_sent |->
        [i \in 1..Len(blocks_sent[h]) |-> sent_heap[blocks_sent[h][i]]]]

\* The references held by the send map.
SentRefs == UNION {{blocks_sent[h][i] : i \in 1..Len(blocks_sent[h])} : h \in DOMAIN blocks_sent}

\* What the loop got for the i-th line read, and for the last one.
Event(i) == Parse[log[i]]
LastEvent == Parse[log[Len(log)]]
IsEvent(what, reasons) == what.kind = "entry" /\ what.why \in reasons
\* The step reads one more line.
Reads == Len(log') = Len(log) + 1

Hashes == {"aa", "bb", "cc"}
Announcing == {"CB_TO_ANNOUNCE", "CB_REQUESTED"}
\* The i-th line read is Received(h) / Reconstructed(h) / any Received.
IsReceived(i, h) ==
    IsEvent(Event(i), {"CB_RECEIVE"}) /\ Event(i).data["blockhash"] = h
IsReconstructed(i, h) ==
    IsEvent(Event(i), {"CB_RECONSTRUCTION"}) /\ Event(i).data["blockhash"] = h
IsAnyReceived(i) == IsEvent(Event(i), {"CB_RECEIVE"})
\* The time of day the n-th line of a file carries.
T(n) == <<2025, 6, 25, 20, 15, n, 0>>
\* The stamp of the event names a time: what.time() returns.
HasTime(what) == time(what.time_str).kind = "datetime"
\* The pass was aborted by what.time() of a Received.
ReceiveAborted ==
    /\ status = "aborted" /\ error = "ParserError"
    /\ IsEvent(LastEvent, {"CB_RECEIVE"})

(***************************************************************************)
(* C1.  End to end (ScenarioSpec): for the five lines Received(aa, 100     *)
(* bytes) at T1, Announced(aa, peer 7) at T2, Sent(120 bytes, peer 7) at   *)
(* T3, WindowSizeLogged(1500) at T4, Reconstructed(aa, 0 txn, 0 bytes) at  *)
(* T5, the pass returns exactly one receive record, for aa, with size 100, *)
(* nothing missing, received at T1 and reconstructed at T5, and exactly    *)
(* one send record, for aa, to peer 7, of size 120, window 1500, sent at   *)
(* T3, referring to that receive record.                                   *)
(***************************************************************************)
Scenario ==
    <<Stamped(1, RECEIVE_aa), Stamped(2, ANNOUNCE_aa_7), Stamped(3, SEND_120_7),
      Stamped(4, MAX_SEND_1500), Stamped(5, RECONSTRUCT_aa)>>

C1_EndToEnd ==
    (log = Scenario /\ status # "running") =>
        /\ status = "done"
        /\ returned
        /\ ReceiveRecords =
               ("aa" :> [time_received |-> Some(T(1)),
                         time_reconstructed |-> Some(T(5)),
                         received_size |-> 100, bytes_missing |-> 0,
                         received_tx_missing |-> 0,
                         reconstruction_time_ns |-> 0])
        /\ SendRecords =
               ("aa" :> <<[block_received |-> blocks_received["aa"],
                           peer_id |-> 7, time_sent |-> Some(T(3)),
                           send_size |-> 120, tcp_window_size |-> 1500]>>)

C1_Witness == log = Scenario /\ status = "done"

(***************************************************************************)
(* C2.  Orphan property.  For distinct hashes A and B, with Received(A)    *)
(* read before Received(B) and no Reconstructed(A) between them: right     *)
(* after Received(B) the receive map contains B and not A.  As amended:    *)
(* at the end of the run A is still absent if no later Received(A) was     *)
(* read, and B is still present if no later Received of another hash was   *)
(* read while B was the block awaiting reconstruction.                     *)
(***************************************************************************)
\* Received(A) at i, Received(B) at j, no Reconstructed(A) between them.
OrphanPair(A, B, i, j) ==
    /\ A # B
    /\ i < j
    /\ IsReceived(i, A)
    /\ IsReceived(j, B)
    /\ \A m \in (i + 1)..(j - 1) : ~IsReconstructed(m, A)

NoLaterReceived(j, A) == \A k \in (j + 1)..Len(log) : ~IsReceived(k, A)

\* The k-th line is a Received of another hash, read while B, received at p,
\* was still the block awaiting reconstruction.
Orphans(k, B) ==
    /\ IsAnyReceived(k)
    /\ ~IsReceived(k, B)
    /\ \E p \in 1..(k - 1) :
          /\ IsReceived(p, B)
          /\ \A m \in (p + 1)..(k - 1) :
                ~IsAnyReceived(m) /\ ~IsReconstructed(m, B)

C2_Original ==
    \A A \in Hashes, B \in Hashes : \A i \in 1..Len(log), j \in 1..Len(log) :
        (status # "aborted" /\ OrphanPair(A, B, i, j)) =>
            /\ j = Len(log) =>
                  B \in DOMAIN blocks_received /\ A \notin DOMAIN blocks_received
            /\ (status = "done" /\ NoLaterReceived(j, A)) =>
                  B \in DOMAIN blocks_received /\ A \notin DOMAIN blocks_received

C2_Orphan ==
    \A A \in Hashes, B \in Hashes : \A i \in 1..Len(log), j \in 1..Len(log) :
        (status # "aborted" /\ OrphanPair(A, B, i, j)) =>
            /\ j = Len(log) =>
                  B \in DOMAIN blocks_received /\ A \notin DOMAIN blocks_received
            /\ (status = "done" /\ NoLaterReceived(j, A)) =>
                  A \notin DOMAIN blocks_received
            /\ (status = "done" /\ \A k \in (j + 1)..Len(log) : ~Orphans(k, B)) =>
                  B \in DOMAIN blocks_received

C2_Witness ==
    /\ status = "done"
    /\ Len(log) = 3
    /\ OrphanPair("aa", "bb", 1, 2)
    /\ ~IsAnyReceived(3)
    /\ DOMAIN blocks_received = {"bb"}

(***************************************************************************)
(* C3.  Peer mismatch.  Announced(H, peer p) for a hash H that has a       *)
(* receive record, directly followed by Sent for another peer: the pass    *)
(* raises AssertionError and aborts, nothing is returned and no further    *)
(* line is read.  As amended: the send record the Announced created is     *)
(* still in the send map when the pass aborts, untouched by the Sent (no   *)
(* time, size 0, window 0).                                                *)
(***************************************************************************)
\* The last line read is Announced or Requested for a received block and
\* the line read by this step is a Sent for another peer.
MismatchedSend ==
    /\ Reads
    /\ Len(log) >= 1
    /\ IsEvent(LastEvent, Announcing)
    /\ LastEvent.data["blockhash"] \in DOMAIN blocks_received
    /\ IsEvent(LastEvent', {"CB_SEND"})
    /\ int(LastEvent'.data["peer_id"]) # int(LastEvent.data["peer_id"])

\* The send records of block h that are for peer p.
RecordsFor(h, p) ==
    IF h \in DOMAIN blocks_sent
    THEN {r \in {blocks_sent[h][i] : i \in 1..Len(blocks_sent[h])} :
              sent_heap[r].peer_id = p}
    ELSE {}

C3_Original ==
    (/\ Len(log) >= 2
     /\ IsEvent(Event(Len(log) - 1), Announcing)
     /\ Event(Len(log) - 1).data["blockhash"] \in DOMAIN blocks_received
     /\ IsEvent(LastEvent, {"CB_SEND"})
     /\ int(LastEvent.data["peer_id"]) # int(Event(Len(log) - 1).data["peer_id"]))
    => /\ status = "aborted"
       /\ error = "AssertionError"
       /\ RecordsFor(Event(Len(log) - 1).data["blockhash"],
                     int(Event(Len(log) - 1).data["peer_id"])) = {}

C3_PeerMismatch ==
    [][/\ MismatchedSend =>
             /\ status' = "aborted"
             /\ error' = "AssertionError"
             /\ ~returned'
             /\ UNCHANGED engine
             /\ pending_block_send \in
                    RecordsFor(LastEvent.data["blockhash"],
                               int(LastEvent.data["peer_id"]))
             /\ sent_heap'[pending_block_send].time_sent = None
             /\ sent_heap'[pending_block_send].send_size = 0
             /\ sent_heap'[pending_block_send].tcp_window_size = 0
       /\ status = "aborted" => UNCHANGED vars]_vars

C3_Witness ==
    /\ status = "aborted"
    /\ error = "AssertionError"
    /\ Len(log) >= 2
    /\ IsEvent(Event(Len(log) - 1), Announcing)
    /\ IsEvent(LastEvent, {"CB_SEND"})
    /\ pending_block_send \in SentRefs

(***************************************************************************)
(* C4.  Correlation invariant.  As claimed: at the end of a run every send *)
(* record with a non-zero tcp_window_size has a non-zero send_size and a   *)
(* time_sent.  As amended: every such record has a time_sent, and its      *)
(* send_size is the size captured by the Sent line read at that time,      *)
(* which is 0 when that line says 0 bytes.                                 *)
(***************************************************************************)
C4_Original ==
    status = "done" =>
        \A r \in SentRefs :
            sent_heap[r].tcp_window_size # 0 =>
                sent_heap[r].send_size # 0 /\ sent_heap[r].time_sent # None

\* The i-th line read is the Sent that filled record r.
FilledBy(r, i) ==
    /\ IsEvent(Event(i), {"CB_SEND"})
    /\ HasTime(Event(i))
    /\ sent_heap[r].time_sent = Some(time(Event(i).time_str).value)
    /\ sent_heap[r].send_size = int(Event(i).data["cmpctblock_bytes"])

C4_Correlation ==
    status = "done" =>
        \A r \in SentRefs :
            sent_heap[r].tcp_window_size # 0 =>
                /\ sent_heap[r].time_sent # None
                /\ \E i \in 1..Len(log) : FilledBy(r, i)

C4_Witness ==
    /\ status = "done"
    /\ \E r \in SentRefs :
          /\ sent_heap[r].tcp_window_size # 0
          /\ sent_heap[r].send_size = 0
          /\ sent_heap[r].time_sent # None

(***************************************************************************)
(* C5.  Unexpected reconstruction.  A Reconstructed(h) line read while the *)
(* pending-reconstruction slot is empty or holds another hash is skipped   *)
(* with a warning: the receive map, the send map, their records and the    *)
(* three pending slots are unchanged, and the run continues.               *)
(***************************************************************************)
UnexpectedReconstruction ==
    /\ Reads
    /\ IsEvent(LastEvent', {"CB_RECONSTRUCTION"})
    /\ hash_pending_reconstruction # Some(LastEvent'.data["blockhash"])

C5_UnexpectedReconstruction ==
    [][UnexpectedReconstruction =>
           /\ UNCHANGED engine
           /\ stdout' = RECONSTRUCTION_WARNING(LastEvent'.data["blockhash"])
           /\ status' = "running"]_vars

\* A reconstruction was skipped while the slot held another hash.
C5_Witness ==
    /\ Len(log) >= 1
    /\ IsEvent(LastEvent, {"CB_RECONSTRUCTION"})
    /\ stdout = RECONSTRUCTION_WARNING(LastEvent.data["blockhash"])
    /\ hash_pending_reconstruction # None
    /\ status = "running"

(***************************************************************************)
(* C6.  An Announced(h, p) or Requested(h, p) line read while h has no     *)
(* receive record is dropped: no send record is created, the send map      *)
(* gets no key for h, the pending slots are unchanged, and the run         *)
(* continues.                                                              *)
(***************************************************************************)
UnknownAnnounce ==
    /\ Reads
    /\ IsEvent(LastEvent', Announcing)
    /\ LastEvent'.data["blockhash"] \notin DOMAIN blocks_received

C6_AnnounceDropped ==
    [][UnknownAnnounce =>
           /\ UNCHANGED <<sent_heap, blocks_sent, pending_block_send,
                          pending_max_send, hash_pending_reconstruction>>
           /\ UNCHANGED <<recv_heap, blocks_received>>
           /\ status' = "running"]_vars

\* The block was received, announced and orphaned; it is announced again
\* while a send is pending.
C6_Witness ==
    /\ Len(log) >= 1
    /\ IsEvent(LastEvent, Announcing)
    /\ LastEvent.data["blockhash"] \notin DOMAIN blocks_received
    /\ LastEvent.data["blockhash"] \in DOMAIN blocks_sent
    /\ pending_block_send # 0
    /\ status = "running"

(***************************************************************************)
(* C8.  Malformed line.  As claimed: a non-blank line with no space is     *)
(* reported and skipped, leaves the state unchanged and is not fatal; the  *)
(* run continues with the next line.                                       *)
(***************************************************************************)
C8_MalformedLine ==
    [][(Reads /\ LastEvent'.kind = "bare") =>
           /\ stdout' = MALFORMED_WARNING(strip(log'[Len(log')]))
           /\ UNCHANGED engine
           /\ status' = "running"]_vars

(***************************************************************************)
(* C7.  Interleavings (InterleaveSpec).  As claimed: for two               *)
(* transmissions to different peers, of the same or of different received  *)
(* blocks, and every order-preserving interleaving of their lines, the     *)
(* pass does not abort and each of the two send records ends with the      *)
(* send_size, time_sent and tcp_window_size of its own transmission.  As   *)
(* amended: this holds for the interleavings in which neither              *)
(* transmission's Announced-or-Requested falls between the other's         *)
(* Announced-or-Requested and Sent, and neither's Sent falls between the   *)
(* other's Sent and WindowSizeLogged; in every other interleaving the pass *)
(* aborts or a record ends without the values of its own transmission.     *)
(***************************************************************************)
\* Where the file holds the line, 0 when it does not.
Pos(text) ==
    IF \E i \in 1..Len(log) : log[i] = Stamped(i, text)
    THEN CHOOSE i \in 1..Len(log) : log[i] = Stamped(i, text)
    ELSE 0

SecondAnnounce == IF OtherBlocks THEN ANNOUNCE_bb_8 ELSE REQUESTED_aa_8

\* y was read after x and before z, or z is still to come.
Between(x, y, z) == x > 0 /\ y > x /\ (z = 0 \/ y < z)

Separated ==
    /\ ~Between(Pos(ANNOUNCE_aa_7), Pos(SecondAnnounce), Pos(SEND_120_7))
    /\ ~Between(Pos(SecondAnnounce), Pos(ANNOUNCE_aa_7), Pos(SEND_300_8))
    /\ ~Between(Pos(SEND_120_7), Pos(SEND_300_8), Pos(MAX_SEND_1500))
    /\ ~Between(Pos(SEND_300_8), Pos(SEND_120_7), Pos(MAX_SEND_3000))

Complete == Pos(MAX_SEND_1500) > 0 /\ Pos(MAX_SEND_3000) > 0

\* The send map holds one record per transmission, each with its own values.
OwnValues ==
    /\ Cardinality(SentRefs) = 2
    /\ DOMAIN blocks_sent = (IF OtherBlocks THEN {"aa", "bb"} ELSE {"aa"})
    /\ \E r \in RecordsFor("aa", 7) :
          /\ sent_heap[r].send_size = 120
          /\ sent_heap[r].time_sent = Some(T(Pos(SEND_120_7)))
          /\ sent_heap[r].tcp_window_size = 1500
    /\ \E r \in RecordsFor(IF OtherBlocks THEN "bb" ELSE "aa", 8) :
          /\ sent_heap[r].send_size = 300
          /\ sent_heap[r].time_sent = Some(T(Pos(SEND_300_8)))
          /\ sent_heap[r].tcp_window_size = 3000

C7_Original ==
    /\ status # "aborted"
    /\ (status = "done" /\ Complete) => OwnValues

C7_Interleavings ==
    /\ Separated => status # "aborted"
    /\ (status = "done" /\ Complete /\ Separated) => OwnValues
    /\ (status = "done" /\ Complete /\ ~Separated) => ~OwnValues

\* a1 s1 a2 w1 s2 w2 on the same block: interleaved, and handled.
C7_Witness ==
    /\ status = "done"
    /\ Complete
    /\ Separated
    /\ ~OtherBlocks
    /\ Pos(SEND_120_7) < Pos(REQUESTED_aa_8)
    /\ Pos(REQUESTED_aa_8) < Pos(MAX_SEND_1500)
    /\ OwnValues

(***************************************************************************)
(* C9.  (ParseSpec) For every line with zero bracket groups, constructing  *)
(* the entry is not an error, the Metadata's time_str is the text before   *)
(* the first space and every optional field (category, loglevel, thread,   *)
(* file, line_num, function, wallet_name) is absent.                       *)
(***************************************************************************)
C9_NoGroups ==
    (parts # None /\ parts[1].groups = <<>>) =>
        /\ parsed[1].kind = "entry"
        /\ parsed[1].metadata.time_str = parts[1].time_str
        /\ \A field \in {"category", "loglevel", "thread", "file", "line_num",
                         "function", "wallet_name"} :
              parsed[1].metadata[field] = None

\* No group before the body, bracketed text inside the body.
C9_Witness ==
    /\ parts # None
    /\ parts[1].groups = <<>>
    /\ parts[1].body = "msg [net] x"
    /\ parsed[1].kind = "entry"
    /\ parsed[1].metadata = NoMetadata(parts[1].time_str)

\* The source locations of the groups of ParseSpec.
SourceLocations ==
    ("validation.cpp:12" :> [file |-> "validation.cpp", line_num |-> 12])
        @@ ("operator.h:7" :> [file |-> "operator.h", line_num |-> 7])

(***************************************************************************)
(* C10.  (ParseSpec) Each Metadata slot is populated at most once per      *)
(* line: on a line that parses without error no two bracket groups are     *)
(* assigned to the same slot (thread, source location, function,           *)
(* category/level, wallet name).  The loop over the groups left of the     *)
(* category assigns a group to the slot of its shape without testing       *)
(* whether the slot is set: of [main] [init] [net] both main and init are  *)
(* assigned to the thread slot, which keeps init.                          *)
(***************************************************************************)
C10_PopulatedOnce ==
    (parsed # None /\ parsed[1].kind = "entry") =>
        \A i \in 1..Len(parsed[1].slots), j \in 1..Len(parsed[1].slots) :
            i # j => parsed[1].slots[i] # parsed[1].slots[j]

(***************************************************************************)
(* C11.  (ClassifySpec) Classification is category-exclusive.  An event of *)
(* a kind is produced only for a line whose category is the one the kind   *)
(* requires: cmpctblock for Received and Reconstructed, net for Sent,      *)
(* Announced, Requested and WindowSizeLogged.  A line whose category is    *)
(* absent, is another one, or whose body matches only a pattern of another *)
(* category is Uninteresting, changes no correlation state, and the run    *)
(* continues.                                                              *)
(***************************************************************************)
RequiredCategory ==
    [reason \in {"CB_RECEIVE", "CB_RECONSTRUCTION"} |-> "cmpctblock"]
        @@ [reason \in {"CB_SEND", "CB_TO_ANNOUNCE", "CB_REQUESTED",
                        "NET_MAX_SEND"} |-> "net"]

\* The line the step reads was written with category c and body b.
ReadsLine(c, b) ==
    /\ Reads
    /\ log'[Len(log')] = Stamped(Len(log'), c.text \o b.text)

C11_CategoryExclusive ==
    [][\A c \in CategoryVocab, b \in PatternBodies :
          ReadsLine(c, b) =>
              /\ LastEvent'.kind = "entry"
              /\ LastEvent'.why # "WE_DONT" =>
                     c.category = Some(RequiredCategory[LastEvent'.why])
              /\ c.category # Some(b.category) =>
                     /\ LastEvent'.why = "WE_DONT"
                     /\ UNCHANGED engine
                     /\ status' = "running"]_vars

\* A Sent body under the cmpctblock category, read while a send is pending.
C11_Witness ==
    /\ Len(log) = 3
    /\ log[3] = Stamped(3, "[cmpctblock] sending cmpctblock (120 bytes) peer=7")
    /\ pending_block_send # 0
    /\ sent_heap[pending_block_send].time_sent = None
    /\ status = "running"

(***************************************************************************)
(* C12.  (ParseSpec) Parsing is idempotent.  For every line that parses    *)
(* without error, the line rebuilt from the result -- the timestamp, the   *)
(* metadata prefix and the body as they were split, and also the           *)
(* timestamp, the Metadata written back as annotations in the format's     *)
(* order and the body -- parses to the same Metadata and the same body.    *)
(***************************************************************************)
\* The timestamp, the metadata prefix and the body, as the line was split.
Resplit(line, entry) ==
    entry.metadata.time_str \o " "
        \o MetadataMatch(From(line, FindChar(line, 1, " ") + 1)).metadata
        \o entry.body

SameEntry(again, entry) ==
    /\ again.kind = "entry"
    /\ again.metadata = entry.metadata
    /\ again.body = entry.body

C12_Idempotent ==
    (parsed # None /\ parsed[1].kind = "entry") =>
        /\ SameEntry(LogEntry(Resplit(Render(parts[1]), parsed[1])), parsed[1])
        /\ SameEntry(LogEntry(Rebuild(parsed[1].metadata, parsed[1].body)),
                     parsed[1])

\* Annotations out of the format's order, with a level and a wallet name:
\* the rebuilt line is another line, and parses to the same entry.
C12_Witness ==
    /\ parsed # None
    /\ parsed[1].kind = "entry"
    /\ parts[1].groups = <<"validation.cpp:12", "net:debug", "my wallet">>
    /\ parts[1].body = "msg [net] x"
    /\ Rebuild(parsed[1].metadata, parsed[1].body) # Render(parts[1])
    /\ parsed[1].metadata.loglevel = Some("debug")
    /\ parsed[1].metadata.line_num = Some(12)

(***************************************************************************)
(* C14.  After any Received(h, size) the receive map binds h to a fresh    *)
(* record: time_received is the event's timestamp, received_size is size,  *)
(* time_reconstructed is absent, bytes_missing and tx_missing_count are 0; *)
(* the record is a new object, every older record is as it was, and the    *)
(* pending-reconstruction slot equals h -- whatever the state was before,  *)
(* h already in the map or already pending included.  The pass does this   *)
(* for every Received whose timestamp names a time (C14_Timed); for one    *)
(* whose timestamp names none, what.time() raises ParserError after the    *)
(* pending binding was deleted and the slot set, and no record is made.    *)
(***************************************************************************)
\* This step reads an event of one of the reasons.
ReadsEvent(reasons) == Reads /\ IsEvent(LastEvent', reasons)

\* The record a Received line read as the n-th line makes.
FreshRecord(n, what) ==
    [time_received |-> Some(T(n)),
     time_reconstructed |-> None,
     received_size |-> int(what.data["cmpctblock_bytes"]),
     bytes_missing |-> 0,
     received_tx_missing |-> 0,
     reconstruction_time_ns |-> 0]

C14_Received ==
    [][\A h \in Hashes :
          (ReadsEvent({"CB_RECEIVE"}) /\ LastEvent'.data["blockhash"] = h) =>
              /\ status' = "running"
              /\ h \in DOMAIN blocks_received'
              /\ blocks_received'[h] \notin DOMAIN recv_heap
              /\ recv_heap' = Append(recv_heap, FreshRecord(Len(log'), LastEvent'))
              /\ blocks_received'[h] = Len(recv_heap')
              /\ hash_pending_reconstruction' = Some(h)]_vars

\* The same of the Received events whose timestamp names a time.
C14_Timed ==
    [][\A h \in Hashes :
          (/\ ReadsEvent({"CB_RECEIVE"})
           /\ LastEvent'.data["blockhash"] = h
           /\ HasTime(LastEvent')) =>
              /\ status' = "running"
              /\ h \in DOMAIN blocks_received'
              /\ blocks_received'[h] \notin DOMAIN recv_heap
              /\ recv_heap' = Append(recv_heap, FreshRecord(Len(log'), LastEvent'))
              /\ blocks_received'[h] = Len(recv_heap')
              /\ hash_pending_reconstruction' = Some(h)]_vars

(***************************************************************************)
(* C15.  A Reconstructed(h, requested_count, requested_bytes) read while   *)
(* the pending-reconstruction slot equals h sets tx_missing_count,         *)
(* bytes_missing and time_reconstructed of the record of h from the event, *)
(* leaves its time_received and received_size unchanged, and clears the    *)
(* slot; the map and every other record are unchanged.  The pass does this *)
(* for every such event whose timestamp names a time (C15_Timed); for one  *)
(* whose timestamp names none, what.time() raises ParserError after the    *)
(* two counts were written, and the slot is not cleared.                   *)
(***************************************************************************)
\* This step reads a Reconstructed(h) while h is pending.
ReadsPending(h) ==
    /\ ReadsEvent({"CB_RECONSTRUCTION"})
    /\ LastEvent'.data["blockhash"] = h
    /\ hash_pending_reconstruction = Some(h)

\* The step writes the two counts of the event into the record of h and
\* leaves the map and the rest of the records as they were.
CountsWritten(h) ==
    /\ blocks_received' = blocks_received
    /\ DOMAIN recv_heap' = DOMAIN recv_heap
    /\ \A r \in DOMAIN recv_heap \ {blocks_received[h]} :
          recv_heap'[r] = recv_heap[r]
    /\ ReceiveRecords'[h].received_tx_missing =
           int(LastEvent'.data["requested_count"])
    /\ ReceiveRecords'[h].bytes_missing =
           int(LastEvent'.data["requested_bytes"])
    /\ ReceiveRecords'[h].time_received = ReceiveRecords[h].time_received
    /\ ReceiveRecords'[h].received_size = ReceiveRecords[h].received_size

C15_Reconstructed ==
    [][\A h \in Hashes :
          ReadsPending(h) =>
              /\ status' = "running"
              /\ CountsWritten(h)
              /\ ReceiveRecords'[h].time_reconstructed = Some(T(Len(log')))
              /\ hash_pending_reconstruction' = None]_vars

\* The same of the events whose timestamp names a time.
C15_Timed ==
    [][\A h \in Hashes :
          (ReadsPending(h) /\ HasTime(LastEvent')) =>
              /\ status' = "running"
              /\ CountsWritten(h)
              /\ ReceiveRecords'[h].time_reconstructed = Some(T(Len(log')))
              /\ hash_pending_reconstruction' = None]_vars

(***************************************************************************)
(* C16.  An Announced(h, p) or Requested(h, p) for a hash h that has a     *)
(* receive record appends exactly one new send record (peer_id p,          *)
(* send_size 0, tcp_window_size 0, no time_sent, referring to the receive  *)
(* record of h) to the end of the send list of h and makes it the pending  *)
(* announced-or-requested record; the record that was in that slot stays   *)
(* in its send list, unchanged, and so does every other send list.         *)
(***************************************************************************)
\* The send list of h, empty when the map has no key h.
SendList(h) == IF h \in DOMAIN blocks_sent THEN blocks_sent[h] ELSE <<>>

C16_Announced ==
    [][\A h \in Hashes :
          (/\ ReadsEvent(Announcing)
           /\ LastEvent'.data["blockhash"] = h
           /\ h \in DOMAIN blocks_received) =>
              /\ status' = "running"
              /\ sent_heap' =
                     Append(sent_heap,
                            [block_received |-> blocks_received[h],
                             peer_id |-> int(LastEvent'.data["peer_id"]),
                             time_sent |-> None, send_size |-> 0,
                             tcp_window_size |-> 0])
              /\ DOMAIN blocks_sent' = DOMAIN blocks_sent \cup {h}
              /\ blocks_sent'[h] = Append(SendList(h), Len(sent_heap'))
              /\ \A g \in DOMAIN blocks_sent \ {h} :
                    blocks_sent'[g] = blocks_sent[g]
              /\ pending_block_send' = Len(sent_heap')
              /\ pending_block_send # 0 =>
                    /\ pending_block_send \in SentRefs'
                    /\ sent_heap'[pending_block_send] =
                           sent_heap[pending_block_send]
              /\ UNCHANGED <<recv_heap, blocks_received, pending_max_send,
                             hash_pending_reconstruction>>]_vars

\* aa is received, announced to peer 7 and requested by peer 8: the second
\* record follows the first in the list of aa and took its place in the slot.
C16_Witness ==
    /\ Len(log) = 3
    /\ IsReceived(1, "aa")
    /\ IsEvent(Event(2), {"CB_TO_ANNOUNCE"})
    /\ IsEvent(Event(3), {"CB_REQUESTED"})
    /\ blocks_sent = ("aa" :> <<1, 2>>)
    /\ sent_heap[1] = [block_received |-> blocks_received["aa"], peer_id |-> 7,
                       time_sent |-> None, send_size |-> 0,
                       tcp_window_size |-> 0]
    /\ sent_heap[2].peer_id = 8
    /\ pending_block_send = 2

(***************************************************************************)
(* C17.  (StampSpec) A Sent(p, size) read while the pending                *)
(* announced-or-requested record has peer_id p sets the send_size and the  *)
(* time_sent of that record from the event and nothing else of it, moves   *)
(* the record into the pending-window-size slot, whatever that slot held,  *)
(* and leaves the pending announced-or-requested slot empty; no other      *)
(* record and neither map changes.  The pass does this for every such      *)
(* event whose timestamp names a time (C17_Timed); for one whose timestamp *)
(* names none, what.time() raises ParserError after send_size was written, *)
(* and the record is not moved.                                            *)
(***************************************************************************)
\* This step reads a Sent to the peer of the pending record.
ReadsMatching ==
    /\ ReadsEvent({"CB_SEND"})
    /\ pending_block_send # 0
    /\ sent_heap[pending_block_send].peer_id = int(LastEvent'.data["peer_id"])

\* The step leaves the pending record as it was but for its send_size and
\* time_sent, send_size being the event's, and changes no other record
\* and neither map.
SizeWritten(time_sent) ==
    /\ DOMAIN sent_heap' = DOMAIN sent_heap
    /\ sent_heap'[pending_block_send] =
           [block_received |-> sent_heap[pending_block_send].block_received,
            peer_id |-> sent_heap[pending_block_send].peer_id,
            time_sent |-> time_sent,
            send_size |-> int(LastEvent'.data["cmpctblock_bytes"]),
            tcp_window_size |-> sent_heap[pending_block_send].tcp_window_size]
    /\ \A r \in DOMAIN sent_heap \ {pending_block_send} :
          sent_heap'[r] = sent_heap[r]
    /\ UNCHANGED <<recv_heap, blocks_received, blocks_sent,
                   hash_pending_reconstruction>>

\* The time the timestamp of the event names.
EventTime(what) == time(what.time_str).value

C17_Sent ==
    [][ReadsMatching =>
           /\ status' = "running"
           /\ HasTime(LastEvent')
           /\ SizeWritten(Some(EventTime(LastEvent')))
           /\ pending_max_send' = pending_block_send
           /\ pending_block_send' = 0]_vars

\* The same of the events whose timestamp names a time.
C17_Timed ==
    [][(ReadsMatching /\ HasTime(LastEvent')) =>
           /\ status' = "running"
           /\ SizeWritten(Some(EventTime(LastEvent')))
           /\ pending_max_send' = pending_block_send
           /\ pending_block_send' = 0]_vars

(***************************************************************************)
(* C18.  A Sent read while the pending announced-or-requested slot is      *)
(* empty is dropped: no send record is created or modified, both maps and  *)
(* the three pending slots are unchanged, and the pass goes on, whatever   *)
(* the peer of the event is.                                               *)
(***************************************************************************)
C18_SentDropped ==
    [][(ReadsEvent({"CB_SEND"}) /\ pending_block_send = 0) =>
           /\ status' = "running"
           /\ error' = ""
           /\ sent_heap' = sent_heap
           /\ recv_heap' = recv_heap
           /\ blocks_received' = blocks_received
           /\ blocks_sent' = blocks_sent
           /\ pending_block_send' = 0
           /\ pending_max_send' = pending_max_send
           /\ hash_pending_reconstruction' = hash_pending_reconstruction]_vars

\* A send to peer 7 was filled and waits for its window size; a Sent for
\* peer 8 follows with nothing announced: it is dropped and the pass goes on.
C18_Witness ==
    /\ Len(log) = 4
    /\ IsReceived(1, "aa")
    /\ IsEvent(Event(2), {"CB_TO_ANNOUNCE"})
    /\ IsEvent(Event(3), {"CB_SEND"})
    /\ IsEvent(Event(4), {"CB_SEND"})
    /\ int(Event(4).data["peer_id"]) = 8
    /\ status = "running"
    /\ Len(sent_heap) = 1
    /\ sent_heap[1].peer_id = 7
    /\ sent_heap[1].time_sent = Some(T(3))
    /\ pending_block_send = 0
    /\ pending_max_send = 1

(***************************************************************************)
(* C19.  A WindowSizeLogged(max_bytes) read while the pending-window-size  *)
(* slot is empty changes nothing; otherwise it sets tcp_window_size to     *)
(* max_bytes on exactly the record in that slot, changes no other field    *)
(* and no other record, and clears the slot.  The pass goes on either way. *)
(***************************************************************************)
C19_WindowSize ==
    [][ReadsEvent({"NET_MAX_SEND"}) =>
           /\ status' = "running"
           /\ pending_max_send = 0 => UNCHANGED engine
           /\ pending_max_send # 0 =>
                 /\ DOMAIN sent_heap' = DOMAIN sent_heap
                 /\ sent_heap'[pending_max_send] =
                        [block_received |->
                             sent_heap[pending_max_send].block_received,
                         peer_id |-> sent_heap[pending_max_send].peer_id,
                         time_sent |-> sent_heap[pending_max_send].time_sent,
                         send_size |-> sent_heap[pending_max_send].send_size,
                         tcp_window_size |->
                             int(LastEvent'.data["max_send_bytes"])]
                 /\ \A r \in DOMAIN sent_heap \ {pending_max_send} :
                       sent_heap'[r] = sent_heap[r]
                 /\ pending_max_send' = 0
                 /\ UNCHANGED <<recv_heap, blocks_received, blocks_sent,
                                pending_block_send,
                                hash_pending_reconstruction>>]_vars

\* The window size 3000 is written into the second record, the one in the
\* slot; the first record, sent earlier, never gets a window size; the next
\* WindowSizeLogged finds the slot empty.
C19_Witness ==
    /\ Len(log) = 7
    /\ IsEvent(Event(6), {"NET_MAX_SEND"})
    /\ IsEvent(Event(7), {"NET_MAX_SEND"})
    /\ status = "running"
    /\ Len(sent_heap) = 2
    /\ sent_heap[1].send_size = 120
    /\ sent_heap[1].tcp_window_size = 0
    /\ sent_heap[2].send_size = 300
    /\ sent_heap[2].tcp_window_size = 3000
    /\ pending_max_send = 0

(***************************************************************************)
(* C20.  A receive record is not removed once its reconstruction is        *)
(* recorded.  As claimed: after a Reconstructed(h) has been applied to the *)
(* record of h, no later sequence of events removes h from the receive     *)
(* map.  As amended: as long as no later Received(h) is read, h stays in   *)
(* the receive map and its record keeps the reconstruction time of that    *)
(* event.                                                                  *)
(***************************************************************************)
\* The i-th line is a Reconstructed(h) that was applied: its stamp names a
\* time and the last Received before it is a Received(h), with no
\* Reconstructed(h) in between.
Applied(i, h) ==
    /\ IsReconstructed(i, h)
    /\ HasTime(Event(i))
    /\ \E p \in 1..(i - 1) :
          /\ IsReceived(p, h)
          /\ \A m \in (p + 1)..(i - 1) :
                ~IsAnyReceived(m) /\ ~IsReconstructed(m, h)

C20_Original ==
    \A h \in Hashes : \A i \in 1..Len(log) :
        Applied(i, h) => h \in DOMAIN blocks_received

C20_Finalized ==
    \A h \in Hashes : \A i \in 1..Len(log) :
        (Applied(i, h) /\ NoLaterReceived(i, h)) =>
            /\ h \in DOMAIN blocks_received
            /\ ReceiveRecords[h].time_reconstructed = Some(T(i))

\* aa is received and reconstructed; bb is received and, never
\* reconstructed, removed when cc is received: aa is still in the map, with
\* the reconstruction time T2.
C20_Witness ==
    /\ Len(log) = 4
    /\ Applied(2, "aa")
    /\ IsReceived(3, "bb")
    /\ IsReceived(4, "cc")
    /\ DOMAIN blocks_received = {"aa", "cc"}
    /\ ReceiveRecords["aa"].time_reconstructed = Some(T(2))
    /\ hash_pending_reconstruction = Some("cc")

(***************************************************************************)
(* C21.  The back-reference of the send records.  As claimed: in every     *)
(* reachable state and at the end of the run every key of the send map is  *)
(* a key of the receive map.  As amended: every send record of a hash h    *)
(* holds the receive record h was bound to when the Announced or Requested *)
(* was read, a record created by a Received(h); the key h itself is in the *)
(* receive map unless a later Received of another hash orphaned h and no   *)
(* Received(h) followed, or the pass was aborted by a Received(h) whose    *)
(* timestamp names no time, read while h awaited reconstruction.           *)
(***************************************************************************)
C21_Original == DOMAIN blocks_sent \subseteq DOMAIN blocks_received

C21_BackReference ==
    \A h \in DOMAIN blocks_sent :
        /\ \A n \in 1..Len(blocks_sent[h]) :
              /\ sent_heap[blocks_sent[h][n]].block_received \in DOMAIN recv_heap
              /\ \E p \in 1..Len(log) :
                    /\ IsReceived(p, h)
                    /\ recv_heap[sent_heap[blocks_sent[h][n]].block_received]
                           .time_received = Some(T(p))
        /\ h \notin DOMAIN blocks_received =>
              \/ \E k \in 1..Len(log) : Orphans(k, h) /\ NoLaterReceived(k, h)
              \/ ReceiveAborted /\ IsReceived(Len(log), h)

\* aa is received and announced, then orphaned by bb: the send map still
\* has the key aa, the receive map has not, and the send record of aa still
\* holds the record received at T1.
C21_Witness ==
    /\ Len(log) = 3
    /\ IsReceived(1, "aa")
    /\ IsEvent(Event(2), Announcing)
    /\ IsReceived(3, "bb")
    /\ DOMAIN blocks_sent = {"aa"}
    /\ DOMAIN blocks_received = {"bb"}
    /\ recv_heap[sent_heap[blocks_sent["aa"][1]].block_received].time_received
           = Some(T(1))

(***************************************************************************)
(* C22.  Running to the end of the stream.  As claimed: a file none of     *)
(* whose lines triggers a fatal error (a peer mismatch, an unrecognized    *)
(* annotation, a missing category) is read to its end, the pass never      *)
(* aborts on it, and at the end of the file the two maps are returned.     *)
(***************************************************************************)
\* No line read so far raised in the line parser (unrecognized annotation,
\* missing category) and no assertion on the peer failed.
NoFatalError ==
    /\ \A i \in 1..Len(log) : Event(i).kind # "raise"
    /\ error # "AssertionError"

C22_RunsToEnd ==
    NoFatalError =>
        /\ status # "aborted"
        /\ status = "done" => returned

(***************************************************************************)
(* C23.  (ParseSpec) Rightmost-group disambiguation.  As claimed: if the   *)
(* rightmost bracket group matches the category pattern it becomes         *)
(* category and loglevel and wallet_name stays absent; otherwise it        *)
(* becomes wallet_name and the group left of it must match the category    *)
(* pattern; when it does not, or when there is no group left of it,        *)
(* parsing fails with the missing-category error (ValueError) and no       *)
(* Metadata is produced.                                                   *)
(***************************************************************************)
\* The groups of GroupVocab that match the category pattern, with the
\* category and the level they stand for.
Categories ==
    ("net" :> [category |-> Some("net"), loglevel |-> None])
        @@ ("net:debug" :> [category |-> Some("net"), loglevel |-> Some("debug")])
        @@ ("net:débug" :> [category |-> Some("net"), loglevel |-> Some("débug")])

\* The entry, when one is produced, has category and level from group g and
\* the wallet name wallet.
Disambiguated(entry, g, wallet) ==
    entry.kind = "entry" =>
        /\ entry.metadata.category = Categories[g].category
        /\ entry.metadata.loglevel = Categories[g].loglevel
        /\ entry.metadata.wallet_name = wallet

\* The outcome for the groups of a line, n > 0 of them.
Rightmost_Group(entry, groups, n) ==
    IF groups[n] \in DOMAIN Categories
    THEN Disambiguated(entry, groups[n], None)
    ELSE IF n > 1 /\ groups[n - 1] \in DOMAIN Categories
    THEN Disambiguated(entry, groups[n - 1], Some(groups[n]))
    ELSE entry.kind = "raise" /\ entry.exc = "ValueError"

C23_Disambiguation ==
    (parts # None /\ parts[1].groups # <<>>) =>
        Rightmost_Group(parsed[1], parts[1].groups, Len(parts[1].groups))

(***************************************************************************)
(* C24.  (ParseSpec) Every bracket group left of the category is           *)
(* classified by the fixed precedence thread, source location, function:   *)
(* a known thread name or numbered worker goes to thread even when it has  *)
(* the shape of a bare identifier (main, init, net); a group goes to the   *)
(* source file and line only if it is not a thread, and to function only   *)
(* if it is neither, so that operator.h:7, which has the source-location   *)
(* and the operator shape, is a source location.                           *)
(***************************************************************************)
\* The groups of GroupVocab by shape.
ThreadShaped == {"main", "init", "net", "scriptch.3"}
SourceShaped == {"validation.cpp:12", "operator.h:7"}
FunctionShaped == {"main", "init", "net", "UpdateTip", "operator.h:7", "main\n"}

Precedence(g) ==
    IF g \in ThreadShaped THEN "thread"
    ELSE IF g \in SourceShaped THEN "file"
    ELSE IF g \in FunctionShaped THEN "function"
    ELSE "none"

C24_Precedence ==
    (parsed # None /\ parsed[1].kind = "entry") =>
        /\ \A i \in 1..Len(parsed[1].slots) :
              parsed[1].slots[i] \notin {"category", "wallet_name"} =>
                  parsed[1].slots[i] = Precedence(parts[1].groups[i])
        /\ \A field \in {"thread", "function"} :
              parsed[1].metadata[field] # None =>
                  \E i \in 1..Len(parsed[1].slots) :
                      /\ parsed[1].metadata[field] = Some(parts[1].groups[i])
                      /\ Precedence(parts[1].groups[i]) = field
        /\ parsed[1].metadata.file # None =>
              \E i \in 1..Len(parsed[1].slots) :
                  /\ Precedence(parts[1].groups[i]) = "file"
                  /\ parsed[1].metadata.file =
                         Some(SourceLocations[parts[1].groups[i]].file)

\* [main] [operator.h:7] [net]: main is the thread and not the function,
\* operator.h:7 the source location and not the function.
C24_Witness ==
    /\ parsed # None
    /\ parsed[1].kind = "entry"
    /\ parts[1].groups = <<"main", "operator.h:7", "net">>
    /\ parsed[1].metadata.thread = Some("main")
    /\ parsed[1].metadata.file = Some("operator.h")
    /\ parsed[1].metadata.line_num = Some(7)
    /\ parsed[1].metadata.function = None
    /\ parsed[1].metadata.category = Some("net")

(***************************************************************************)
(* C25.  An unrecognized annotation is fatal for the whole run: when a     *)
(* bracket group left of the category has none of the thread, source       *)
(* location or function shapes, the pass halts at that line with the       *)
(* ValueError of the line parser, no later line is read and no maps are    *)
(* returned.                                                               *)
(***************************************************************************)
\* This step reads the line with the group "not an annotation" left of its
\* category.
ReadsBadAnnotation ==
    /\ Reads
    /\ log'[Len(log')] = Stamped(Len(log'), BAD_ANNOTATION)

C25_UnrecognizedAnnotation ==
    [][/\ ReadsBadAnnotation =>
             /\ LastEvent' = Raise("ValueError")
             /\ status' = "aborted"
             /\ error' = "ValueError"
             /\ ~returned'
             /\ UNCHANGED engine
       /\ (status = "aborted" /\ error = "ValueError") =>
             /\ log' = log
             /\ status' = "aborted"
             /\ ~returned']_vars

\* A block was received and announced when the line is read: the pass has
\* halted there and returned nothing.
C25_Witness ==
    /\ Len(log) = 3
    /\ IsReceived(1, "aa")
    /\ IsEvent(Event(2), Announcing)
    /\ log[3] = Stamped(3, BAD_ANNOTATION)
    /\ status = "aborted"
    /\ error = "ValueError"
    /\ ~returned
    /\ DOMAIN blocks_received = {"aa"}

(***************************************************************************)
(* C26.  (ParseSpec) In every Metadata produced, category is present       *)
(* whenever any of loglevel, wallet_name, thread, file, line_num or        *)
(* function is present: no level and no wallet name without a category.    *)
(***************************************************************************)
C26_CategoryPresent ==
    (parsed # None /\ parsed[1].kind = "entry") =>
        ((\E field \in {"loglevel", "wallet_name", "thread", "file",
                        "line_num", "function"} :
              parsed[1].metadata[field] # None)
            => parsed[1].metadata.category # None)

\* [main] [net:debug] [my wallet]: a thread, a level and a wallet name, and
\* the category net.
C26_Witness ==
    /\ parsed # None
    /\ parsed[1].kind = "entry"
    /\ parts[1].groups = <<"main", "net:debug", "my wallet">>
    /\ parsed[1].metadata.thread = Some("main")
    /\ parsed[1].metadata.loglevel = Some("debug")
    /\ parsed[1].metadata.wallet_name = Some("my wallet")
    /\ parsed[1].metadata.category = Some("net")

(***************************************************************************)
(* C27.  (ParseSpec) Greedy metadata prefix.  As claimed: after the        *)
(* timestamp the prefix is the longest run of bracket groups and           *)
(* whitespace and ends at the first position where the rest of the line    *)
(* does not start with "["; the rest is the body, and groups inside the    *)
(* body are never annotations.  As amended: the prefix ends at the first   *)
(* position where the rest does not start with a complete, non-empty       *)
(* group, "[", one or more characters other than "]", and "]"; a body may  *)
(* start with "[" when that bracket is never closed or closed at once.     *)
(***************************************************************************)
\* The text starts with a complete, non-empty bracket group; c is the
\* position of its first "]".
StartsWithGroup(text, c) ==
    /\ Len(text) >= 3
    /\ Ch(text, 1) = "["
    /\ c >= 3
    /\ c <= Len(text)

C27_Original ==
    (parsed # None /\ parsed[1].kind = "entry") =>
        /\ parsed[1].body = parts[1].body
        /\ ~StartsWith(parsed[1].body, 1, "[")

C27_GreedyPrefix ==
    (parsed # None /\ parsed[1].kind = "entry") =>
        /\ parsed[1].body = parts[1].body
        /\ Len(parsed[1].slots) = Len(parts[1].groups)
        /\ ~StartsWithGroup(parsed[1].body, FindChar(parsed[1].body, 1, "]"))

\* [main] [net] [] [net] x: the body starts with a bracket and holds a
\* group; the two groups before it are the annotations.
C27_Witness ==
    /\ parsed # None
    /\ parsed[1].kind = "entry"
    /\ parts[1].groups = <<"main", "net">>
    /\ parsed[1].body = "[] [net] x"
    /\ parsed[1].metadata.thread = Some("main")
    /\ parsed[1].metadata.category = Some("net")
    /\ parsed[1].metadata.wallet_name = None

(***************************************************************************)
(* C29.  In every reachable state a hash in the pending-reconstruction     *)
(* slot is a key of the receive map, so the orphan discard of a Received   *)
(* never deletes a missing key: no pass ends with a KeyError.  The slot is *)
(* set in the statement before the one that binds the hash, and that one   *)
(* calls what.time(): in the state a pass is aborted in by a Received      *)
(* whose timestamp names no time the slot holds the hash of that line and  *)
(* the map does not; in every other state the hash in the slot is a key of *)
(* the map (C29_Bound).                                                    *)
(***************************************************************************)
C29_PendingIsReceived ==
    /\ hash_pending_reconstruction # None =>
          hash_pending_reconstruction[1] \in DOMAIN blocks_received
    /\ error # "KeyError"

\* The same of the states other than the one the ParserError of a Received
\* leaves.
C29_Bound ==
    /\ (hash_pending_reconstruction # None /\ ~ReceiveAborted) =>
          hash_pending_reconstruction[1] \in DOMAIN blocks_received
    /\ ReceiveAborted =>
          hash_pending_reconstruction = Some(LastEvent.data["blockhash"])
    /\ error # "KeyError"

(***************************************************************************)
(* C30.  In every reachable state and at the end of the run every record   *)
(* of the receive map has its time_reconstructed set, except the record of *)
(* the hash in the pending-reconstruction slot: at most one returned       *)
(* receive record lacks a reconstruction time.                             *)
(***************************************************************************)
Unreconstructed ==
    {h \in DOMAIN blocks_received : ReceiveRecords[h].time_reconstructed = None}

C30_OneUnreconstructed ==
    /\ \A h \in Unreconstructed : hash_pending_reconstruction = Some(h)
    /\ Cardinality(Unreconstructed) <= 1

\* aa was received and reconstructed, bb was received last: the map is
\* returned with two records, and bb alone has no reconstruction time.
C30_Witness ==
    /\ status = "done"
    /\ returned
    /\ DOMAIN blocks_received = {"aa", "bb"}
    /\ Unreconstructed = {"bb"}
    /\ hash_pending_reconstruction = Some("bb")

(***************************************************************************)
(* C28.  (StatsSpec) As claimed: the statistics step does not mutate the   *)
(* output of the pass in place; running it over the two maps leaves every  *)
(* field of every receive record and of every send record unchanged.       *)
(***************************************************************************)
C28_NoMutation ==
    [][main_received' = main_received /\ main_sent' = main_sent]_vars

(***************************************************************************)
(* C31.  Pending-slot invariant: in every reachable state, a record in the *)
(* slot of the announced or requested transmission (pending_block_send)    *)
(* has no time_sent and tcp_window_size 0; a record in the slot awaiting   *)
(* its window size (pending_max_send) has time_sent set and                *)
(* tcp_window_size 0; the two slots never hold the same record; and every  *)
(* record held in either slot is an element of some send list.             *)
(***************************************************************************)
PendingRefs == {pending_block_send, pending_max_send} \ {0}

C31_PendingSlots ==
    /\ pending_block_send # 0 =>
           /\ sent_heap[pending_block_send].time_sent = None
           /\ sent_heap[pending_block_send].tcp_window_size = 0
    /\ pending_max_send # 0 =>
           /\ sent_heap[pending_max_send].time_sent # None
           /\ sent_heap[pending_max_send].tcp_window_size = 0
    /\ pending_block_send # 0 => pending_block_send # pending_max_send
    /\ PendingRefs \subseteq SentRefs

\* Received(aa), Announced(aa, 7), Sent(120, 7), Requested(aa, 8): the first
\* record waits for its window size, the second for its Sent.
C31_Witness ==
    /\ Len(log) = 4
    /\ IsEvent(Event(3), {"CB_SEND"})
    /\ IsEvent(Event(4), {"CB_REQUESTED"})
    /\ pending_max_send = 1
    /\ pending_block_send = 2
    /\ sent_heap[1].send_size = 120
    /\ blocks_sent["aa"] = <<1, 2>>

(***************************************************************************)
(* C32.  (ScenarioSpec) Send-record fields are write-once: over any event  *)
(* sequence each send record is updated by at most one Sent event and at   *)
(* most one WindowSizeLogged event, so once time_sent and send_size are    *)
(* set they never change, once tcp_window_size is set it never changes,    *)
(* and peer_id never changes after creation.  A record changes only when   *)
(* a Sent finds it in pending_block_send with no time_sent, or a           *)
(* WindowSizeLogged finds it in pending_max_send; it leaves the slot at    *)
(* that step, and no existing record ever enters pending_block_send.       *)
(***************************************************************************)
Updates(r) == sent_heap'[r] # sent_heap[r]

C32_WriteOnce ==
    [][\A r \in 1..Len(sent_heap) :
          /\ Len(sent_heap') >= Len(sent_heap)
          /\ sent_heap'[r].peer_id = sent_heap[r].peer_id
          /\ sent_heap[r].time_sent # None =>
                 /\ sent_heap'[r].time_sent = sent_heap[r].time_sent
                 /\ sent_heap'[r].send_size = sent_heap[r].send_size
          /\ sent_heap[r].tcp_window_size # 0 =>
                 sent_heap'[r].tcp_window_size = sent_heap[r].tcp_window_size
          /\ Updates(r) =>
                 \/ /\ ReadsEvent({"CB_SEND"})
                    /\ sent_heap[r].time_sent = None
                    /\ sent_heap'[r].time_sent # None
                    /\ sent_heap'[r].tcp_window_size = sent_heap[r].tcp_window_size
                    /\ pending_block_send = r
                    /\ pending_block_send' # r
                 \/ /\ ReadsEvent({"NET_MAX_SEND"})
                    /\ sent_heap[r].time_sent # None
                    /\ sent_heap'[r].time_sent = sent_heap[r].time_sent
                    /\ sent_heap'[r].send_size = sent_heap[r].send_size
                    /\ pending_max_send = r
                    /\ pending_max_send' # r
          /\ pending_block_send' = r => pending_block_send = r
          /\ (pending_max_send' = r /\ pending_max_send # r) =>
                 pending_block_send = r
      ]_vars

\* Received(aa), Announced(aa, 7), Sent(120, 7), Sent(120, 7),
\* WindowSizeLogged(1500): the record keeps the time and size of the first
\* Sent after the second, and gets its window size.
C32_Witness ==
    /\ Len(log) = 5
    /\ IsEvent(Event(3), {"CB_SEND"})
    /\ IsEvent(Event(4), {"CB_SEND"})
    /\ IsEvent(Event(5), {"NET_MAX_SEND"})
    /\ Len(sent_heap) = 1
    /\ sent_heap[1].time_sent = Some(T(3))
    /\ sent_heap[1].send_size = 120
    /\ sent_heap[1].tcp_window_size = 1500
    /\ sent_heap[1].peer_id = 7

(***************************************************************************)
(* C33.  (InterleaveSpec) In every state reached without abort, every send *)
(* record with time_sent set was filled by a Sent event whose peer equals  *)
(* the record's peer_id; and no record, in any state, carries the time and *)
(* send_size of a Sent event addressed to a different peer.                *)
(***************************************************************************)
SentTo(i) == int(Event(i).data["peer_id"])

C33_SentPeer ==
    /\ status # "aborted" =>
           \A r \in 1..Len(sent_heap) :
               sent_heap[r].time_sent # None =>
                   \E i \in 1..Len(log) :
                       FilledBy(r, i) /\ SentTo(i) = sent_heap[r].peer_id
    /\ \A r \in 1..Len(sent_heap) : \A i \in 1..Len(log) :
           FilledBy(r, i) => SentTo(i) = sent_heap[r].peer_id

\* The two transmissions of block aa, to peer 7 and to peer 8, interleaved:
\* the second was requested while the first waited for its window size, and
\* each record was filled by the Sent addressed to its own peer.
C33_Witness ==
    /\ status = "done"
    /\ Len(sent_heap) = 2
    /\ sent_heap[1].peer_id = 7 /\ sent_heap[1].send_size = 120
    /\ sent_heap[2].peer_id = 8 /\ sent_heap[2].send_size = 300
    /\ \E i, j \in 1..Len(log) :
           /\ FilledBy(1, i) /\ SentTo(i) = 7
           /\ FilledBy(2, j) /\ SentTo(j) = 8
           /\ IsEvent(Event(i + 1), {"CB_REQUESTED"})
           /\ IsEvent(Event(i + 2), {"NET_MAX_SEND"})
           /\ i + 2 < j

(***************************************************************************)
(* C34.  As claimed: a Sent event is attributed only to the transmission   *)
(* announced immediately before it.  If the Announced or Requested event   *)
(* read just before it was dropped because its hash had no receive record, *)
(* the Sent (here: to the peer of the dropped event) modifies no send      *)
(* record of any other block and does not abort the run.                   *)
(***************************************************************************)
\* The line read last is an Announced or Requested that was dropped, and
\* this step reads the Sent to the peer of that event.
SentAfterDropped ==
    /\ Reads
    /\ Len(log) >= 1
    /\ IsEvent(LastEvent, Announcing)
    /\ LastEvent.data["blockhash"] \notin DOMAIN blocks_received
    /\ IsEvent(LastEvent', {"CB_SEND"})
    /\ int(LastEvent'.data["peer_id"]) = int(LastEvent.data["peer_id"])

C34_SentAfterDropped ==
    [][SentAfterDropped =>
          /\ status' # "aborted"
          /\ \A h \in DOMAIN blocks_sent \ {LastEvent.data["blockhash"]} :
                 \A i \in 1..Len(blocks_sent[h]) :
                     sent_heap'[blocks_sent[h][i]] = sent_heap[blocks_sent[h][i]]
      ]_vars

(***************************************************************************)
(* C35.  Receive side and send side are framed apart: a step that reads a  *)
(* Received or a Reconstructed leaves the send map, every existing send    *)
(* record and the two send slots unchanged; a step that reads an           *)
(* Announced, Requested, Sent or WindowSizeLogged leaves the receive map,  *)
(* every receive record and the pending-reconstruction slot unchanged;     *)
(* and send lists only grow: no send record is ever removed, and no send   *)
(* list is ever empty.  A send record's block_received is the reference    *)
(* to its receive record; the record referred to belongs to the receive    *)
(* side.                                                                   *)
(***************************************************************************)
ReceiveSide == {"CB_RECEIVE", "CB_RECONSTRUCTION"}
SendSide == {"CB_TO_ANNOUNCE", "CB_REQUESTED", "CB_SEND", "NET_MAX_SEND"}

\* Every list of the send map is kept as a prefix of the list it becomes.
SendListsGrow ==
    /\ DOMAIN blocks_sent \subseteq DOMAIN blocks_sent'
    /\ \A h \in DOMAIN blocks_sent :
           /\ Len(blocks_sent'[h]) >= Len(blocks_sent[h])
           /\ SubSeq(blocks_sent'[h], 1, Len(blocks_sent[h])) = blocks_sent[h]
    /\ Len(sent_heap') >= Len(sent_heap)

C35_Framed ==
    [][/\ ReadsEvent(ReceiveSide) =>
              UNCHANGED <<blocks_sent, sent_heap, pending_block_send,
                          pending_max_send>>
       /\ ReadsEvent(SendSide) =>
              UNCHANGED <<blocks_received, recv_heap,
                          hash_pending_reconstruction>>
       /\ SendListsGrow
       /\ \A h \in DOMAIN blocks_sent' : blocks_sent'[h] # <<>>
      ]_vars

\* Received(aa), Announced(aa, 7), Reconstructed(aa), Sent(120, 7): the
\* reconstruction was read while the send record waited in its slot, the
\* Sent after the receive record was complete.
C35_Witness ==
    /\ Len(log) = 4
    /\ IsEvent(Event(2), {"CB_TO_ANNOUNCE"})
    /\ IsEvent(Event(3), {"CB_RECONSTRUCTION"})
    /\ IsEvent(Event(4), {"CB_SEND"})
    /\ blocks_sent = [h \in {"aa"} |-> <<1>>]
    /\ sent_heap[1].time_sent = Some(T(4))
    /\ recv_heap[blocks_received["aa"]].time_reconstructed = Some(T(3))
    /\ pending_max_send = 1
    /\ hash_pending_reconstruction = None

(***************************************************************************)
(* C36.  (StampSpec) If the timestamps of the lines read are               *)
(* non-decreasing in arrival order, then each receive record with          *)
(* time_reconstructed set has time_received <= time_reconstructed, and     *)
(* each send record with time_sent set has time_sent >= the time_received  *)
(* of the receive record it was created against.                           *)
(***************************************************************************)
\* datetime <=, on year, month, day, hour, minute, second, microsecond.
TimeLeq(a, b) ==
    \/ a = b
    \/ \E i \in 1..7 : a[i] < b[i] /\ \A j \in 1..(i - 1) : a[j] = b[j]

LineTime(i) == time(Event(i).time_str)

\* Of the lines whose stamp is a time, none is earlier than a line before it.
NonDecreasing ==
    \A i, j \in 1..Len(log) :
        (i < j /\ LineTime(i).kind = "datetime" /\ LineTime(j).kind = "datetime")
            => TimeLeq(LineTime(i).value, LineTime(j).value)

C36_TimesOrdered ==
    NonDecreasing =>
        /\ \A b \in 1..Len(recv_heap) :
               recv_heap[b].time_reconstructed # None =>
                   TimeLeq(recv_heap[b].time_received[1],
                           recv_heap[b].time_reconstructed[1])
        /\ \A r \in 1..Len(sent_heap) :
               sent_heap[r].time_sent # None =>
                   TimeLeq(recv_heap[sent_heap[r].block_received].time_received[1],
                           sent_heap[r].time_sent[1])

\* Received(aa) and Announced(aa, 7) at second 1, Sent(120, 7) and
\* Reconstructed(aa) half a second later: two pairs of lines with equal
\* times, and both records complete.
C36_Witness ==
    /\ Len(log) = 4
    /\ NonDecreasing
    /\ LineTime(1) = LineTime(2)
    /\ LineTime(3) = LineTime(4)
    /\ Len(recv_heap) = 1 /\ Len(sent_heap) = 1
    /\ recv_heap[1].time_received = Some(T(1))
    /\ recv_heap[1].time_reconstructed = Some(<<2025, 6, 25, 20, 15, 1, 500000>>)
    /\ sent_heap[1].time_sent = Some(<<2025, 6, 25, 20, 15, 1, 500000>>)
    /\ sent_heap[1].block_received = 1

(***************************************************************************)
(* C37.  As claimed: the derived-column step never divides by zero on the  *)
(* output of the pass.  For every event sequence, every send record the    *)
(* pass returns whose hash is in the receive map has tcp_window_size # 0,  *)
(* so received_size % tcp_window_size and received_size //                 *)
(* tcp_window_size are defined for every exported row.                     *)
(***************************************************************************)
\* The send records create_dataframes makes a row of.
ExportedRefs ==
    UNION {{blocks_sent[h][i] : i \in 1..Len(blocks_sent[h])} :
               h \in DOMAIN blocks_sent \cap DOMAIN blocks_received}

C37_WindowNonZero ==
    (status = "done" /\ returned) =>
        \A r \in ExportedRefs : sent_heap[r].tcp_window_size # 0

(***************************************************************************)
(* C38.  (OverSpec) As claimed: in sent_already_over_stats the reported    *)
(* count of excessively large blocks (rtts_without_prefill > 1) that had   *)
(* prefills that fit equals the number of those rows with prefill_size <=  *)
(* window_bytes_available, and the reported fit rate is that count divided *)
(* by the number of excessively large rows, defined also when there are no *)
(* such rows.                                                              *)
(***************************************************************************)
ExcessiveRows == {i \in 1..Len(over_sent) : over_sent[i].rtts_without_prefill > 1}

FittingRows ==
    {i \in ExcessiveRows :
         over_sent[i].prefill_size <= over_sent[i].window_bytes_available}

C38_FitReport ==
    /\ over_status # "raised"
    /\ over_status = "printed" =>
           /\ over_locals.printed_fit = Cardinality(FittingRows)
           /\ over_locals.printed_excessive = Cardinality(ExcessiveRows)
           /\ over_locals.excessive_fit_rate =
                  <<Cardinality(FittingRows), Cardinality(ExcessiveRows)>>

====
